---------------------------- MODULE Spec2Model ----------------------------
(***************************************************************************)
(* Model of linlanniao/k8sutils: the watch-based reconciliation controller *)
(* (controller/controller.go) and the kbatch alpha/v2 task manager         *)
(* (kbatch/alpha/v2/manager.go, task.go, script.go, trackers.go).          *)
(*                                                                         *)
(* Three specifications share this module:                                 *)
(*   SpecCtl  the controller: informer events, the deduplicating work      *)
(*            queue, the rate limiter and the worker loops;                *)
(*   SpecRun  the manager's RunTask against the cluster and the tracking   *)
(*            tables;                                                      *)
(*   SpecJob  the manager's handling of Job watch events, starting from    *)
(*            the state RunTask leaves.                                    *)
(* Each specification leaves the variables it does not use unchanged.      *)
(***************************************************************************)
EXTENDS Integers, Sequences, FiniteSets, TLC

\* ------------------------------------------------------------------------
\* Bounds of the model
\* ------------------------------------------------------------------------
NumKeys == 1
NumWorkers == 2
MaxEvents == 2
MaxVersion == 2
MaxRuns == 1
NumSuffixes == 2
NumJobs == 1
MaxDeliveries == 2
NumControllers == 2
MaxGenerate == 2
initBufSize == 2
MaxLineLen == 3
MaxArgs == 4
MaxParams == 2

\* ------------------------------------------------------------------------
\* Program constants
\* ------------------------------------------------------------------------
\* controller.go:207  "if c.queue.NumRequeues(key) < 5"
RetryCeiling == 5

Keys == 1..NumKeys
Workers == 1..NumWorkers
Absent == 0
NoKey == 0
Nil == "nil"
Err == "err"

VARIABLES
    \* ---- controller (SpecCtl) ----
    indexer,      \* cache.Indexer: key -> Absent or the cached object version
    wq,           \* workqueue: [queue, dirty, processing]
    waiting,      \* delaying queue: key -> number of pending AddAfter timers
    failures,     \* rate limiter: key -> NumRequeues
    wpc,          \* worker -> position in processNextItem
    wkey,         \* worker -> key obtained from queue.Get
    wcall,        \* worker -> the callback invocation chosen by processBusiness
    werr,         \* worker -> error returned by the callback
    wseen,        \* worker -> indexer entry of its key when processBusiness looked it up
    attempts,     \* key -> callback invocations that returned an error (*)
    successes,    \* key -> 1 once a callback invocation returned nil
    reported,     \* key -> utilruntime.HandleError calls (*)
                  \* (*) counted while the key is Unmixed, 0 afterwards
    events,       \* key -> number of informer events delivered
    enqueuedBy,   \* key -> what last marked the key dirty: an event kind or "retry"
    streak,       \* key -> callback errors in a row since its last success or drop
    dropped,      \* key -> handleErr has given the key up at least once
    unlabelled,   \* key -> an object without the required label exists under the key
    quiet,        \* key -> number of operations on objects without the required label
    \* ---- cluster and manager (SpecRun) ----
    cms,          \* cluster: ConfigMap key -> object
    jobs,         \* cluster: Job key -> object
    taskTracker,  \* manager.taskTracker: key -> tracked Task name
    jobTracker,   \* manager.jobTracker: key -> tracked Job snapshot
    rpc,          \* position of the RunTask call
    rtask,        \* RunTask: the *Task argument (its labels are mutated by the call)
    rscript,      \* RunTask: task.Status.Script  [name, cm]
    rcm,          \* RunTask: local configMap
    rjob,         \* RunTask: local job
    rerr,         \* RunTask: named result err
    rstored,      \* RunTask: the deferred task-tracker rollback has been registered
    rcreated,     \* objects the current call created in the cluster, in order
    rbefore,      \* the tracking tables when the current call started
    runs,         \* number of RunTask calls started
    \* ---- Job watch events (SpecJob) ----
    fresh,        \* Job key -> the Job changed since its snapshot was last delivered
    last,         \* the latest onJobAddedUpdated invocation and what it did
    nSucceed,     \* Job key -> number of OnSucceed invocations
    nFailed,      \* Job key -> number of OnFailed invocations
    deliveries,   \* number of onJobAddedUpdated invocations
    reports,      \* Job key -> the Task last passed to a callback
    \* ---- CleanupTask and Job deletion (SpecClean) ----
    cpc,          \* position of the CleanupTask call
    ctask,        \* CleanupTask: the *Task argument
    clist,        \* CleanupTask: keys of the listed items not yet deleted
    cerr,         \* CleanupTask: named result err
    cfault,       \* an API request of the current call failed in transport
    cstolen,      \* another actor deleted a listed object before the call did
    cprev,        \* the call before the current one, when it returned without error
    gone,         \* Job key -> owning Task key, for deleted Jobs whose
                  \* deletion the controller has not processed yet
    lastDeleted,  \* the latest onJobDeleted invocation and its result
    \* ---- controller life cycle (SpecLife) ----
    lvariant,     \* the constructor that built the controllers
    lconfigured,  \* the number of workers handed to the constructor
    lworkers,     \* the workers field after construction
    mpc,          \* position of MasterController.Run
    mctx,         \* the context given to MasterController.Run is cancelled
    lpc,          \* controller -> position of its Run
    lstop,        \* the stop channel is closed
    lsynced,      \* controller -> informer.HasSynced()
    lqueue,       \* controller -> work queue [items, shuttingDown]
    lidle,        \* controller -> worker loops waiting in queue.Get
    lbusy,        \* controller -> worker loops running a callback
    lexited,      \* controller -> worker loops that have returned
    lreported,    \* controller -> Run reported the failed cache sync
    \* ---- Task content annotation (SpecTrip) ----
    tpc,          \* what was last called on the Task
    ttask,        \* the *Task
    torig,        \* the Task as NewTask built it
    tannotations, \* the Task's annotation map, shared with the Jobs generated
    tscript,      \* t.Status.Script is set
    tjobs,        \* number of GenerateJob calls
    tback,        \* result of Job2Task
    \* ---- onPodAddedUpdated and the log pipeline (SpecPod) ----
    pphase,       \* the pod's phase in the cluster
    pout,         \* number of lines the pod has written
    ptracked,     \* phase of the pod in podTracker (NoPhase: none)
    hpc,          \* position of the worker in onPodAddedUpdated
    hold,         \* phase of oldPod in the last call
    hnew,         \* phase of the pod delivered in the last call
    haction,      \* what the last call did with the logs
    hctx,         \* the call's context is done
    hexpired,     \* the context deadline passed during OnStatusUpdate
    hresult,      \* error returned by the last call
    stream,       \* the call's goroutines, channel, buffer and OnLogs calls
    got,          \* lines passed to OnLogs by any call
    \* ---- parsing of log lines and script arguments (SpecPure) ----
    qpc,          \* the call is to be made, or done
    qop,          \* which function is called
    qin,          \* its argument
    qres          \* its result

ctlVars == <<indexer, wq, waiting, failures, wpc, wkey, wcall, werr, wseen,
             attempts, successes, reported, events, enqueuedBy,
             streak, dropped, unlabelled, quiet>>

runVars == <<cms, jobs, taskTracker, jobTracker, rpc, rtask, rscript, rcm,
             rjob, rerr, rstored, rcreated, rbefore, runs>>

jobVars == <<fresh, last, nSucceed, nFailed, deliveries, reports>>

cleanVars == <<cpc, ctask, clist, cerr, cfault, cstolen, cprev, gone,
               lastDeleted>>

lifeVars == <<lvariant, lconfigured, lworkers, mpc, mctx, lpc, lstop, lsynced,
              lqueue, lidle, lbusy, lexited, lreported>>

tripVars == <<tpc, ttask, torig, tannotations, tscript, tjobs, tback>>

podVars == <<pphase, pout, ptracked, hpc, hold, hnew, haction, hctx, hexpired,
             hresult, stream, got>>

pureVars == <<qpc, qop, qin, qres>>

vars == <<ctlVars, runVars, jobVars, cleanVars, lifeVars, tripVars, podVars,
          pureVars>>

\* ------------------------------------------------------------------------
\* client-go workqueue, as used through c.queue
\* ------------------------------------------------------------------------
\* queue.Add: an item already dirty is dropped, an item in flight is only
\* marked dirty, otherwise it is appended.
wqAdd(q, k) ==
    IF k \in q.dirty THEN q
    ELSE IF k \in q.processing
         THEN [q EXCEPT !.dirty = @ \cup {k}]
         ELSE [q EXCEPT !.dirty = @ \cup {k}, !.queue = Append(@, k)]

\* queue.Get: pops the head, marks it in flight and clears its dirty mark.
wqGet(q) ==
    [queue |-> Tail(q.queue),
     dirty |-> q.dirty \ {Head(q.queue)},
     processing |-> q.processing \cup {Head(q.queue)}]

\* queue.Done: ends the flight; an item marked dirty meanwhile is re-queued.
wqDoneDropping(q, k) == [q EXCEPT !.processing = @ \ {k}]
wqDone(q, k) ==
    IF k \in q.dirty
    THEN [q EXCEPT !.processing = @ \ {k}, !.queue = Append(@, k)]
    ELSE [q EXCEPT !.processing = @ \ {k}]

\* ------------------------------------------------------------------------
\* controller.processNextItem / processBusiness / handleErr
\* ------------------------------------------------------------------------
\* processNextItem, lines 158-165: Get the key; Done is deferred to the end.
processNextItemGetEagerDone(q) == wqDone(wqGet(q), Head(q.queue))
processNextItemGet(q) == wqGet(q)

\* processBusiness: the callback is chosen by the indexer lookup.
processBusinessInverted(k, idx) ==
    IF idx[k] # Absent
    THEN [cb |-> "OnRemoved", key |-> k, obj |-> Absent]
    ELSE [cb |-> "OnChanged", key |-> k, obj |-> idx[k]]
processBusiness(k, idx) ==
    IF idx[k] = Absent
    THEN [cb |-> "OnRemoved", key |-> k, obj |-> Absent]
    ELSE [cb |-> "OnChanged", key |-> k, obj |-> idx[k]]

\* handleErr, lines 202 and 216: queue.Forget(key) clears the requeue count.
forgetNothing(n) == n
forget(n) == 0

\* handleErr, line 207: retry while the requeue count is below the ceiling.
shouldRetryOffByOne(n) == n <= RetryCeiling
shouldRetry(n) == n < RetryCeiling

RECURSIVE SumTo(_, _)
SumTo(f, n) == IF n = 0 THEN 0 ELSE f[n] + SumTo(f, n - 1)
TotalEvents == SumTo(events, NumKeys) + SumTo(quiet, NumKeys)

\* The key has had at most one informer event and no successful callback:
\* all its processing so far is the retrying of one failing event.
Unmixed(ev, succ) == ev <= 1 /\ succ = 0

NoCall == [cb |-> "none", key |-> NoKey, obj |-> Absent]

InitCtl ==
    /\ indexer = [k \in Keys |-> Absent]
    /\ wq = [queue |-> <<>>, dirty |-> {}, processing |-> {}]
    /\ waiting = [k \in Keys |-> 0]
    /\ failures = [k \in Keys |-> 0]
    /\ wpc = [w \in Workers |-> "get"]
    /\ wkey = [w \in Workers |-> NoKey]
    /\ wcall = [w \in Workers |-> NoCall]
    /\ werr = [w \in Workers |-> Nil]
    /\ wseen = [w \in Workers |-> Absent]
    /\ attempts = [k \in Keys |-> 0]
    /\ successes = [k \in Keys |-> 0]
    /\ reported = [k \in Keys |-> 0]
    /\ events = [k \in Keys |-> 0]
    /\ enqueuedBy = [k \in Keys |-> "none"]
    /\ streak = [k \in Keys |-> 0]
    /\ dropped = [k \in Keys |-> FALSE]
    /\ unlabelled = [k \in Keys |-> FALSE]
    /\ quiet = [k \in Keys |-> 0]

\* The informer updates the indexer and then calls the event handler, which
\* enqueues the key (AddFunc / UpdateFunc / DeleteFunc, lines 124-143).
InformerEvent(k, kind, newObj) ==
    /\ TotalEvents < MaxEvents
    /\ indexer' = [indexer EXCEPT ![k] = newObj]
    /\ wq' = wqAdd(wq, k)
    /\ events' = [events EXCEPT ![k] = @ + 1]
    /\ enqueuedBy' = [enqueuedBy EXCEPT ![k] = IF k \in wq.dirty THEN @ ELSE kind]
    /\ attempts' = [attempts EXCEPT ![k] =
                       IF Unmixed(events[k] + 1, successes[k]) THEN @ ELSE 0]
    /\ reported' = [reported EXCEPT ![k] =
                       IF Unmixed(events[k] + 1, successes[k]) THEN @ ELSE 0]
    /\ UNCHANGED <<waiting, failures, wpc, wkey, wcall, werr, wseen, successes,
                   streak, dropped>>

\* newSelector(key, value), lines 251-259: the selector has the single
\* requirement key = value.
selectorMatchesEverything(hasLabel) == TRUE
selectorMatches(hasLabel) == hasLabel

\* The list-watch filtered by the selector (lines 107-116): an operation on
\* an object the selector does not match produces no informer event.
Watch(k, kind, newObj, hasLabel) ==
    IF selectorMatches(hasLabel)
    THEN InformerEvent(k, kind, newObj)
    ELSE /\ TotalEvents < MaxEvents
         /\ UNCHANGED <<indexer, wq, waiting, failures, wpc, wkey, wcall, werr,
                        wseen, attempts, successes, reported, events,
                        enqueuedBy, streak, dropped>>

AddFunc(k) ==
    /\ indexer[k] = Absent
    /\ ~unlabelled[k]
    /\ \E v \in 1..MaxVersion : Watch(k, "add", v, TRUE)
    /\ UNCHANGED <<unlabelled, quiet>>

\* An update carries a new version; a resync re-delivers the cached object.
UpdateFunc(k) ==
    /\ indexer[k] # Absent
    /\ \E v \in indexer[k]..MaxVersion : Watch(k, "update", v, TRUE)
    /\ UNCHANGED <<unlabelled, quiet>>

DeleteFunc(k) ==
    /\ indexer[k] # Absent
    /\ Watch(k, "delete", Absent, TRUE)
    /\ UNCHANGED <<unlabelled, quiet>>

\* An object without the required label is created, updated or deleted in
\* the watched namespace.
UnlabelledCreate(k) ==
    /\ indexer[k] = Absent
    /\ ~unlabelled[k]
    /\ unlabelled' = [unlabelled EXCEPT ![k] = TRUE]
    /\ quiet' = [quiet EXCEPT ![k] = @ + 1]
    /\ Watch(k, "add", 1, FALSE)

UnlabelledUpdate(k) ==
    /\ unlabelled[k]
    /\ quiet' = [quiet EXCEPT ![k] = @ + 1]
    /\ Watch(k, "update", 1, FALSE)
    /\ UNCHANGED unlabelled

UnlabelledDelete(k) ==
    /\ unlabelled[k]
    /\ unlabelled' = [unlabelled EXCEPT ![k] = FALSE]
    /\ quiet' = [quiet EXCEPT ![k] = @ + 1]
    /\ Watch(k, "delete", Absent, FALSE)

\* An update gives the required label to an object, or takes it away: the
\* object enters or leaves the watched selection.
LabelAdded(k) ==
    /\ unlabelled[k]
    /\ unlabelled' = [unlabelled EXCEPT ![k] = FALSE]
    /\ \E v \in 1..MaxVersion : Watch(k, "add", v, TRUE)
    /\ UNCHANGED quiet

LabelRemoved(k) ==
    /\ indexer[k] # Absent
    /\ unlabelled' = [unlabelled EXCEPT ![k] = TRUE]
    /\ Watch(k, "delete", Absent, TRUE)
    /\ UNCHANGED quiet

\* The delaying queue fires a timer set by AddRateLimited.
DelayFire(k) ==
    /\ waiting[k] > 0
    /\ waiting' = [waiting EXCEPT ![k] = @ - 1]
    /\ wq' = wqAdd(wq, k)
    /\ enqueuedBy' = [enqueuedBy EXCEPT ![k] = IF k \in wq.dirty THEN @ ELSE "retry"]
    /\ UNCHANGED <<indexer, failures, wpc, wkey, wcall, werr, wseen,
                   attempts, successes, reported, events,
                   streak, dropped, unlabelled, quiet>>

\* processNextItem: key, quit := c.queue.Get().  The workers blocked in Get
\* are interchangeable: the lowest-numbered one receives the item.
WorkerGet(w) ==
    /\ wpc[w] = "get"
    /\ \A w2 \in Workers : w2 < w => wpc[w2] # "get"
    /\ wq.queue # <<>>
    /\ wkey' = [wkey EXCEPT ![w] = Head(wq.queue)]
    /\ wq' = processNextItemGet(wq)
    /\ wpc' = [wpc EXCEPT ![w] = "business"]
    /\ UNCHANGED <<indexer, waiting, failures, wcall, werr, wseen,
                   attempts, successes, reported, events, enqueuedBy,
                   streak, dropped, unlabelled, quiet>>

\* processBusiness: indexer.GetByKey and the start of the callback.
WorkerBusiness(w) ==
    /\ wpc[w] = "business"
    /\ wseen' = [wseen EXCEPT ![w] = indexer[wkey[w]]]
    /\ wcall' = [wcall EXCEPT ![w] = processBusiness(wkey[w], indexer)]
    /\ wpc' = [wpc EXCEPT ![w] = "callback"]
    /\ UNCHANGED <<indexer, wq, waiting, failures, wkey, werr,
                   attempts, successes, reported, events, enqueuedBy,
                   streak, dropped, unlabelled, quiet>>

\* The callback returns, with or without an error.
WorkerCallbackReturn(w) ==
    /\ wpc[w] = "callback"
    /\ \E e \in {Nil, Err} :
          /\ werr' = [werr EXCEPT ![w] = e]
          /\ successes' = [successes EXCEPT ![wkey[w]] = IF e = Nil THEN 1 ELSE @]
          /\ attempts' = [attempts EXCEPT ![wkey[w]] =
                IF ~Unmixed(events[wkey[w]], successes'[wkey[w]]) THEN 0
                ELSE IF e = Err THEN @ + 1 ELSE @]
          /\ reported' = [reported EXCEPT ![wkey[w]] =
                IF Unmixed(events[wkey[w]], successes'[wkey[w]]) THEN @ ELSE 0]
          /\ streak' = [streak EXCEPT ![wkey[w]] = IF e = Err THEN @ + 1 ELSE 0]
    /\ wpc' = [wpc EXCEPT ![w] = "handleErr"]
    /\ UNCHANGED <<indexer, wq, waiting, failures, wkey, wcall, wseen,
                   events, enqueuedBy, dropped, unlabelled, quiet>>

\* handleErr(err, key)
WorkerHandleErr(w) ==
    /\ wpc[w] = "handleErr"
    /\ LET k == wkey[w] IN
       IF werr[w] = Nil
       THEN \* c.queue.Forget(key)
            /\ failures' = [failures EXCEPT ![k] = forget(@)]
            /\ UNCHANGED <<waiting, reported, streak, dropped>>
       ELSE IF shouldRetry(failures[k])
       THEN \* c.queue.AddRateLimited(key)
            /\ failures' = [failures EXCEPT ![k] = @ + 1]
            /\ waiting' = [waiting EXCEPT ![k] = @ + 1]
            /\ UNCHANGED <<reported, streak, dropped>>
       ELSE \* c.queue.Forget(key); utilruntime.HandleError(err)
            /\ failures' = [failures EXCEPT ![k] = forget(@)]
            /\ reported' = [reported EXCEPT ![k] =
                              IF Unmixed(events[k], successes[k]) THEN @ + 1 ELSE @]
            /\ streak' = [streak EXCEPT ![k] = 0]
            /\ dropped' = [dropped EXCEPT ![k] = TRUE]
            /\ UNCHANGED waiting
    /\ wpc' = [wpc EXCEPT ![w] = "done"]
    /\ UNCHANGED <<indexer, wq, wkey, wcall, werr, wseen,
                   attempts, successes, events, enqueuedBy, unlabelled, quiet>>

\* defer c.queue.Done(key)
WorkerDone(w) ==
    /\ wpc[w] = "done"
    /\ wq' = wqDone(wq, wkey[w])
    /\ wpc' = [wpc EXCEPT ![w] = "get"]
    /\ wkey' = [wkey EXCEPT ![w] = NoKey]
    /\ wcall' = [wcall EXCEPT ![w] = NoCall]
    /\ werr' = [werr EXCEPT ![w] = Nil]
    /\ wseen' = [wseen EXCEPT ![w] = Absent]
    /\ UNCHANGED <<indexer, waiting, failures,
                   attempts, successes, reported, events, enqueuedBy,
                   streak, dropped, unlabelled, quiet>>

\* ------------------------------------------------------------------------
\* Names, keys, labels
\* ------------------------------------------------------------------------
None == "none"
EmptyMap == [x \in {} |-> None]

\* labels[k] = v on a Go map
MapSet(m, k, v) == [x \in DOMAIN m \cup {k} |-> IF x = k THEN v ELSE m[x]]
\* for k, v := range src { dst[k] = v }
MapMerge(dst, src) ==
    [x \in DOMAIN dst \cup DOMAIN src |-> IF x \in DOMAIN src THEN src[x] ELSE dst[x]]
\* sync.Map Store / Delete
MapDelete(m, k) == [x \in DOMAIN m \ {k} |-> m[x]]

\* Names are sequences of characters.
Dash == <<"-">>
Alphabet == <<"a", "b", "c", "d">>
Suffixes == {<<Alphabet[i]>> : i \in 1..NumSuffixes}

\* builders: if !strings.HasSuffix(generateName, "-") { generateName += "-" }
EnsureDash(gn) ==
    IF Len(gn) > 0 /\ gn[Len(gn)] = "-" THEN gn ELSE gn \o Dash

\* common.GenerateName2Name: the generate-name, a dash, a random suffix
\* ("test-pytask" gives "test-pytask-o8nlsv").
GenerateName2Name(gn, r) == EnsureDash(gn) \o r

\* cache.MetaNamespaceKeyFunc / DeletionHandlingMetaNamespaceKeyFunc
MetaNamespaceKey(ns, name) == IF Len(ns) > 0 THEN ns \o <<"/">> \o name ELSE name

managerAddLabelKey == "kbatch.k8sutils.ppops.cn/manager"
managerAddLabelVal == "alpha-v2"
TaskNameLabelKey == "kbatch.k8sutils.ppops.cn/task"
scriptNameLabelKey == "v2.alpha.kbatch.k8sutils.ppops.cn/script"
scriptExecutorLabelKey == "v2.alpha.kbatch.k8sutils.ppops.cn/executor"
jobImageDefault == "alpine:3.19.1"

ManagerLabelsDefault == MapSet(EmptyMap, managerAddLabelKey, managerAddLabelVal)

\* ------------------------------------------------------------------------
\* Validation (validate.Validate and the Validate methods)
\* ------------------------------------------------------------------------
\* Types whose Validate method has a pointer receiver / a value receiver.
PointerReceiver == {"Task", "TaskSpec", "ScriptSpec", "Script", "configMapBuilder"}
ValueReceiver == {"ScriptExecutor", "TaskPrivilege", "Parameters"}

\* obj.(Validator): the method set of a value of type T holds only the
\* value-receiver methods, that of *T holds both.
ImplementsValidator(type, isPointer) ==
    type \in ValueReceiver \/ (type \in PointerReceiver /\ isPointer)

\* validate.Validate(obj): calls obj.Validate() when obj implements
\* Validator, and returns nil otherwise.
Validate(type, isPointer, result) ==
    IF ImplementsValidator(type, isPointer) THEN result ELSE Nil

ScriptExecutorValidate(e) ==
    IF e \in {"sh", "bash", "python"} THEN Nil ELSE "invalid Script executor"

ScriptSpecValidate(t) ==
    IF t.content = "" THEN "content cannot be empty"
    ELSE Validate("ScriptExecutor", FALSE, ScriptExecutorValidate(t.executor))

\* (*TaskPrivilege) is passed; a nil pointer cannot be dereferenced for the
\* value receiver.
TaskPrivilegeValidate(p) ==
    IF p = None THEN "panic"
    ELSE IF p \in {"HostRoot", "ClusterRoot"} THEN Nil
    ELSE "invalid task privilege"

TaskSpecValidate(t) ==
    IF t.image = "" THEN "image cannot be empty"
    ELSE IF Validate("ScriptSpec", FALSE, ScriptSpecValidate(t)) # Nil
         THEN Validate("ScriptSpec", FALSE, ScriptSpecValidate(t))
    ELSE IF Validate("TaskPrivilege", TRUE, TaskPrivilegeValidate(t.privilege)) # Nil
         THEN Validate("TaskPrivilege", TRUE, TaskPrivilegeValidate(t.privilege))
    ELSE IF t.deadline # <<>> /\ t.deadline[1] <= 0
         THEN "activeDeadlineSeconds cannot be negative"
    ELSE IF t.backoff # <<>> /\ t.backoff[1] < 0
         THEN "backoffLimit cannot be negative"
    ELSE Nil

\* (*Task).Validate: t.Spec is passed to validate.Validate by value.
TaskValidate(t) ==
    IF t.name = <<>> THEN "name cannot be empty"
    ELSE IF t.ns = <<>> THEN "namespace cannot be empty"
    ELSE Validate("TaskSpec", FALSE, TaskSpecValidate(t))

\* (*configMapBuilder).Validate on a builder made by ConfigMapBuilder(
\* generateName, namespace, "script", content): the name, namespace and
\* data-key checks pass by construction, the content check remains.
ConfigMapBuilderValidate(ns, content) ==
    IF ns = <<>> THEN "namespace is not valid"
    ELSE IF content = "" THEN "scriptContent cannot be empty"
    ELSE Nil

\* ------------------------------------------------------------------------
\* Resource generators
\* ------------------------------------------------------------------------
\* Task.GenerateScript / Task.GenerateJob: labels[TaskNameLabelKey] = t.GetName()
\* is written into the Task's own label map.
WithoutTaskLabel(labels, name) == labels
WithTaskLabel(labels, name) == MapSet(labels, TaskNameLabelKey, name)

\* Script.GenerateConfigMap: the labels written by the builder (the map is
\* shared with the Task) and the ConfigMap built.
ScriptLabels(labels, scriptName, executor) ==
    MapSet(MapSet(labels, scriptNameLabelKey, scriptName),
           scriptExecutorLabelKey, executor)

GenerateConfigMap(scriptName, ns, content, labels, r) ==
    [name |-> GenerateName2Name(scriptName, r), ns |-> ns,
     labels |-> labels, data |-> content]

\* The ConfigMap GenerateJob mounts: t.Status.Script.ConfigMap(), which is
\* Status.Configmap as last assigned.
StaleConfigMapRef(script, first) == first
ScriptConfigMapRef(script, first) == script.cm

JobStatusZero == [active |-> 0, succeeded |-> 0, failed |-> 0, conds |-> <<>>]

\* Task.GenerateJob with builders.JobBuilder
GenerateJob(t, labels, cmName, r) ==
    [name |-> GenerateName2Name(t.name, r), ns |-> t.ns,
     labels |-> labels,
     image |-> IF t.image = "" THEN jobImageDefault ELSE t.image,
     content |-> [name |-> t.name, ns |-> t.ns],
     cmRef |-> cmName,
     status |-> JobStatusZero]

\* ------------------------------------------------------------------------
\* Tracking tables (trackers.go)
\* ------------------------------------------------------------------------
trackerStore(tbl, ns, name, v) == [x \in DOMAIN tbl \cup {MetaNamespaceKey(ns, name)} |->
                                     IF x = MetaNamespaceKey(ns, name) THEN v ELSE tbl[x]]
trackerDelete(tbl, ns, name) == MapDelete(tbl, MetaNamespaceKey(ns, name))
trackerDeleteByKey(tbl, key) == MapDelete(tbl, key)

\* RunTask's deferred function (lines 249-253): on error the Task leaves the
\* tracking table; no cluster object is deleted.
rollbackKeepsTask(tbl, t, err) == tbl
rollbackTask(tbl, t, err) == IF err # Nil THEN trackerDelete(tbl, t.ns, t.name) ELSE tbl

rollbackCluster(cluster, created, kind, err) == cluster

\* ------------------------------------------------------------------------
\* RunTask inputs (a nil *int64 / *int32 is the empty sequence)
\* ------------------------------------------------------------------------
ValidTask ==
    [name |-> <<"t">>, ns |-> <<"n">>, image |-> "img", content |-> "echo",
     executor |-> "sh", privilege |-> None, deadline |-> <<>>,
     backoff |-> <<>>, labels |-> EmptyMap]

TaskInputs ==
    { ValidTask,
      [ValidTask EXCEPT !.name = <<"u">>],
      [ValidTask EXCEPT !.privilege = "HostRoot"],
      [ValidTask EXCEPT !.labels = MapSet(EmptyMap, TaskNameLabelKey, <<"z">>)],
      [ValidTask EXCEPT !.name = <<>>],
      [ValidTask EXCEPT !.ns = <<>>],
      [ValidTask EXCEPT !.image = ""],
      [ValidTask EXCEPT !.content = ""],
      [ValidTask EXCEPT !.executor = "perl"],
      [ValidTask EXCEPT !.privilege = "Root"],
      [ValidTask EXCEPT !.deadline = <<0>>],
      [ValidTask EXCEPT !.backoff = <<-1>>] }

NoTask == [name |-> <<>>, ns |-> <<>>, image |-> "", content |-> "",
           executor |-> "", privilege |-> None, deadline |-> <<>>,
           backoff |-> <<>>, labels |-> EmptyMap]
NoScript == [name |-> <<>>, cm |-> None, first |-> None]
NoTables == [task |-> EmptyMap, job |-> EmptyMap]

InitRunVars ==
    /\ cms = EmptyMap
    /\ jobs = EmptyMap
    /\ taskTracker = EmptyMap
    /\ jobTracker = EmptyMap
    /\ rpc = "idle"
    /\ rtask = NoTask
    /\ rscript = NoScript
    /\ rcm = None
    /\ rjob = None
    /\ rerr = Nil
    /\ rstored = FALSE
    /\ rcreated = <<>>
    /\ rbefore = NoTables
    /\ runs = 0

ObjKey(o) == MetaNamespaceKey(o.ns, o.name)

\* An error return: the result is set and the deferred functions run next.
Fail(e) ==
    /\ rerr' = e
    /\ rpc' = "deferred"

\* RunTask is called.
RunTaskCall ==
    /\ rpc = "idle"
    /\ runs < MaxRuns
    /\ \E t \in TaskInputs : rtask' = t
    /\ runs' = runs + 1
    /\ rbefore' = [task |-> taskTracker, job |-> jobTracker]
    /\ rpc' = "validate"
    /\ UNCHANGED <<cms, jobs, taskTracker, jobTracker, rscript, rcm, rjob,
                   rerr, rstored, rcreated>>

\* lines 235-240: validate.Validate(task); task.SetLabels(ManagerLabelsDefault())
RunTaskValidate ==
    /\ rpc = "validate"
    /\ IF Validate("Task", TRUE, TaskValidate(rtask)) # Nil
       THEN /\ rerr' = Validate("Task", TRUE, TaskValidate(rtask))
            /\ rpc' = "returned"
            /\ UNCHANGED rtask
       ELSE /\ rtask' = [rtask EXCEPT !.labels = MapMerge(@, ManagerLabelsDefault)]
            /\ rpc' = "store"
            /\ UNCHANGED rerr
    /\ UNCHANGED <<cms, jobs, taskTracker, jobTracker, rscript, rcm, rjob,
                   rstored, rcreated, rbefore, runs>>

\* lines 243-253: m.taskTracker.store(task) and the deferred rollback
RunTaskStore ==
    /\ rpc = "store"
    /\ taskTracker' = trackerStore(taskTracker, rtask.ns, rtask.name, rtask.name)
    /\ rstored' = TRUE
    /\ rpc' = "generateScript"
    /\ UNCHANGED <<cms, jobs, jobTracker, rtask, rscript, rcm, rjob, rerr,
                   rcreated, rbefore, runs>>

\* line 256: task.GenerateScript(), which also generates a first ConfigMap
RunTaskGenerateScript ==
    /\ rpc = "generateScript"
    /\ IF TaskValidate(rtask) # Nil
       THEN Fail(TaskValidate(rtask)) /\ UNCHANGED <<rtask, rscript>>
       ELSE \E r1 \in Suffixes, r2 \in Suffixes :
             LET sname == GenerateName2Name(rtask.name, r1)
                 lbl == ScriptLabels(WithTaskLabel(rtask.labels, rtask.name),
                                     sname, rtask.executor)
                 e == Validate("configMapBuilder", TRUE,
                               ConfigMapBuilderValidate(rtask.ns, rtask.content))
                 cm == GenerateConfigMap(sname, rtask.ns, rtask.content, lbl, r2)
             IN /\ rtask' = [rtask EXCEPT !.labels = lbl]
                /\ IF e # Nil
                   THEN /\ Fail(e)
                        /\ rscript' = [name |-> sname, cm |-> None, first |-> None]
                   ELSE /\ rscript' = [name |-> sname, cm |-> cm.name, first |-> cm.name]
                        /\ rpc' = "generateConfigMap"
                        /\ UNCHANGED rerr
    /\ UNCHANGED <<cms, jobs, taskTracker, jobTracker, rcm, rjob, rstored,
                   rcreated, rbefore, runs>>

\* line 260: script.GenerateConfigMap()
RunTaskGenerateConfigMap ==
    /\ rpc = "generateConfigMap"
    /\ LET e == Validate("configMapBuilder", TRUE,
                         ConfigMapBuilderValidate(rtask.ns, rtask.content))
       IN IF e # Nil
          THEN Fail(e) /\ UNCHANGED <<rscript, rcm>>
          ELSE \E r \in Suffixes :
                LET cm == GenerateConfigMap(rscript.name, rtask.ns, rtask.content,
                                            rtask.labels, r)
                IN /\ rcm' = cm
                   /\ rscript' = [rscript EXCEPT !.cm = cm.name]
                   /\ rpc' = "createConfigMap"
                   /\ UNCHANGED rerr
    /\ UNCHANGED <<cms, jobs, taskTracker, jobTracker, rtask, rjob, rstored,
                   rcreated, rbefore, runs>>

\* lines 266-273: m.clientset.CreateConfigMap; the API call fails when the
\* name is taken, and may fail for any transport reason.
RunTaskCreateConfigMap ==
    /\ rpc = "createConfigMap"
    /\ \/ /\ Fail("create configmap failed")
          /\ UNCHANGED <<cms, rscript, rcreated>>
       \/ /\ ObjKey(rcm) \notin DOMAIN cms
          /\ cms' = MapSet(cms, ObjKey(rcm), rcm)
          /\ rcreated' = Append(rcreated, [kind |-> "ConfigMap", key |-> ObjKey(rcm), obj |-> rcm])
          /\ rscript' = [rscript EXCEPT !.cm = rcm.name]
          /\ rpc' = "generateJob"
          /\ UNCHANGED rerr
    /\ UNCHANGED <<jobs, taskTracker, jobTracker, rtask, rcm, rjob, rstored,
                   rbefore, runs>>

\* line 276: task.GenerateJob()
RunTaskGenerateJob ==
    /\ rpc = "generateJob"
    /\ IF TaskValidate(rtask) # Nil
       THEN Fail(TaskValidate(rtask)) /\ UNCHANGED <<rtask, rjob>>
       ELSE IF ScriptConfigMapRef(rscript, rscript.first) = None
       THEN Fail("configmap is not generated") /\ UNCHANGED <<rtask, rjob>>
       ELSE \E r \in Suffixes :
             LET lbl == WithTaskLabel(rtask.labels, rtask.name)
             IN /\ rtask' = [rtask EXCEPT !.labels = lbl]
                /\ rjob' = GenerateJob(rtask, lbl,
                                       ScriptConfigMapRef(rscript, rscript.first), r)
                /\ rpc' = "createJob"
                /\ UNCHANGED rerr
    /\ UNCHANGED <<cms, jobs, taskTracker, jobTracker, rscript, rcm, rstored,
                   rcreated, rbefore, runs>>

\* lines 282-289: m.clientset.CreateJob
RunTaskCreateJob ==
    /\ rpc = "createJob"
    /\ \/ /\ Fail("create job failed")
          /\ UNCHANGED <<jobs, rcreated>>
       \/ /\ ObjKey(rjob) \notin DOMAIN jobs
          /\ jobs' = MapSet(jobs, ObjKey(rjob), rjob)
          /\ rcreated' = Append(rcreated, [kind |-> "Job", key |-> ObjKey(rjob), obj |-> rjob])
          /\ rpc' = "trackJob"
          /\ UNCHANGED rerr
    /\ UNCHANGED <<cms, taskTracker, jobTracker, rtask, rscript, rcm, rjob,
                   rstored, rbefore, runs>>

\* lines 292-304: m.jobTracker.store(job); return nil
RunTaskTrackJob ==
    /\ rpc = "trackJob"
    /\ jobTracker' = trackerStore(jobTracker, rjob.ns, rjob.name, rjob.status)
    /\ rpc' = "deferred"
    /\ UNCHANGED <<cms, jobs, taskTracker, rtask, rscript, rcm, rjob, rerr,
                   rstored, rcreated, rbefore, runs>>

\* The deferred function of lines 249-253 runs and RunTask returns.
RunTaskReturn ==
    /\ rpc = "deferred"
    /\ taskTracker' = rollbackTask(taskTracker, rtask, rerr)
    /\ cms' = rollbackCluster(cms, rcreated, "ConfigMap", rerr)
    /\ jobs' = rollbackCluster(jobs, rcreated, "Job", rerr)
    /\ rpc' = "returned"
    /\ UNCHANGED <<jobTracker, rtask, rscript, rcm, rjob, rerr, rstored,
                   rcreated, rbefore, runs>>

\* The caller goes on; the next call starts from fresh locals.
RunTaskDone ==
    /\ rpc = "returned"
    /\ rpc' = "idle"
    /\ rtask' = NoTask
    /\ rscript' = NoScript
    /\ rcm' = None
    /\ rjob' = None
    /\ rerr' = Nil
    /\ rstored' = FALSE
    /\ rcreated' = <<>>
    /\ rbefore' = NoTables
    /\ UNCHANGED <<cms, jobs, taskTracker, jobTracker, runs>>

\* ------------------------------------------------------------------------
\* Job watch events: manager.onJobAddedUpdated and Job2Task
\* ------------------------------------------------------------------------
\* A nil *TaskCondition, and a Job without the Task annotation.
NoCond == [type |-> "", status |-> "", reason |-> "", message |-> ""]
NoContent == [name |-> <<>>, ns |-> <<>>]

CompleteCond == [type |-> "Complete", status |-> "True", reason |-> "",
                 message |-> ""]
FailedCond == [type |-> "Failed", status |-> "True",
               reason |-> "BackoffLimitExceeded",
               message |-> "Job has reached the specified backoff limit"]
FailureTargetCond == [type |-> "FailureTarget", status |-> "True",
                      reason |-> "PodFailurePolicy", message |-> "pod failed"]

\* The status snapshots a Job goes through: created, a pod running, a pod
\* failed with and without a retry running, completed (after a retry or not),
\* failed.
JobStatuses ==
    { JobStatusZero,
      [active |-> 1, succeeded |-> 0, failed |-> 0, conds |-> <<>>],
      [active |-> 0, succeeded |-> 0, failed |-> 1, conds |-> <<>>],
      [active |-> 1, succeeded |-> 0, failed |-> 1, conds |-> <<>>],
      [active |-> 0, succeeded |-> 1, failed |-> 0, conds |-> <<CompleteCond>>],
      [active |-> 0, succeeded |-> 1, failed |-> 1, conds |-> <<CompleteCond>>],
      [active |-> 0, succeeded |-> 0, failed |-> 1, conds |-> <<FailedCond>>],
      [active |-> 0, succeeded |-> 0, failed |-> 1,
       conds |-> <<FailureTargetCond, FailedCond>>] }

\* lines 375-378: the no-op test between the tracked and the new status
sameStatus(older, newer) ==
    /\ older.active = newer.active
    /\ older.succeeded = newer.succeeded
    /\ older.failed = newer.succeeded
    /\ Len(older.conds) = Len(newer.conds)

\* Job2Task, lines 797-811: the Task condition is copied from Conditions[0].
conditionOfLast(conds) ==
    IF Len(conds) = 0 THEN NoCond
    ELSE [type |-> conds[Len(conds)].type, status |-> conds[Len(conds)].status,
          reason |-> conds[Len(conds)].reason, message |-> conds[Len(conds)].message]
conditionOf(conds) ==
    IF Len(conds) = 0 THEN NoCond
    ELSE [type |-> conds[1].type, status |-> conds[1].status,
          reason |-> conds[1].reason, message |-> conds[1].message]

\* Job2Task, lines 771-786: the errors
Job2TaskErr(job) ==
    IF job.content = NoContent THEN "task content is empty" ELSE Nil

\* Job2Task: the Task rebuilt from the annotation, with the Job's status
Job2Task(job) ==
    [name |-> job.content.name, ns |-> job.content.ns,
     active |-> job.status.active, succeeded |-> job.status.succeeded,
     failed |-> job.status.failed, cond |-> conditionOf(job.status.conds)]

\* lines 402-410: the terminal callback for a Task whose Condition is set
terminalCallback(task) ==
    IF task.cond.type = "Complete" THEN "OnSucceed" ELSE "OnFailed"

\* manager.onJobAddedUpdated(key, job): the new tracking table, the callbacks
\* invoked in order, the error returned, and whether the no-op test skipped
\* the snapshot.
onJobAddedUpdated(tbl, key, job) ==
    IF key \in DOMAIN tbl /\ sameStatus(tbl[key], job.status)
    THEN [tbl |-> tbl, calls |-> <<>>, err |-> Nil, skipped |-> TRUE]
    ELSE LET stored == trackerStore(tbl, job.ns, job.name, job.status) IN
         IF Job2TaskErr(job) # Nil
         THEN [tbl |-> stored, calls |-> <<>>, err |-> Job2TaskErr(job),
               skipped |-> FALSE]
         ELSE LET task == Job2Task(job) IN
              IF task.cond # NoCond
              THEN [tbl |-> trackerDelete(stored, job.ns, job.name),
                    calls |-> <<[cb |-> "OnStatusUpdate", task |-> task],
                                [cb |-> terminalCallback(task), task |-> task]>>,
                    err |-> Nil, skipped |-> FALSE]
              ELSE [tbl |-> stored,
                    calls |-> <<[cb |-> "OnStatusUpdate", task |-> task]>>,
                    err |-> Nil, skipped |-> FALSE]

\* The Jobs of this specification: Job i is what RunTask(ValidTask) creates
\* when the name generator draws the i-th suffix.
RunTaskLabels(t, scriptName) ==
    ScriptLabels(WithTaskLabel(MapMerge(t.labels, ManagerLabelsDefault), t.name),
                 scriptName, t.executor)

RunTaskJob(i) ==
    LET sname == GenerateName2Name(ValidTask.name, <<Alphabet[i]>>)
        lbl == RunTaskLabels(ValidTask, sname)
        cm == GenerateConfigMap(sname, ValidTask.ns, ValidTask.content, lbl,
                                <<Alphabet[i]>>)
    IN GenerateJob(ValidTask, lbl, cm.name, <<Alphabet[i]>>)

RunTaskConfigMap(i) ==
    LET sname == GenerateName2Name(ValidTask.name, <<Alphabet[i]>>)
    IN GenerateConfigMap(sname, ValidTask.ns, ValidTask.content,
                         RunTaskLabels(ValidTask, sname), <<Alphabet[i]>>)

JobKeys == {ObjKey(RunTaskJob(i)) : i \in 1..NumJobs}

NoReport == [name |-> <<>>, ns |-> <<>>, active |-> 0, succeeded |-> 0,
             failed |-> 0, cond |-> NoCond]

NoDelivery == [key |-> <<>>, snap |-> JobStatusZero, calls |-> <<>>,
               err |-> Nil, skipped |-> FALSE, repeat |-> FALSE]

InitJobVars ==
    /\ fresh = EmptyMap
    /\ last = NoDelivery
    /\ nSucceed = EmptyMap
    /\ nFailed = EmptyMap
    /\ deliveries = 0
    /\ reports = EmptyMap

\* No MasterController has been built.
InitLifeVars ==
    /\ lvariant = "controller"
    /\ lconfigured = 0
    /\ lworkers = 0
    /\ mpc = "new"
    /\ mctx = FALSE
    /\ lpc = <<>>
    /\ lstop = FALSE
    /\ lsynced = <<>>
    /\ lqueue = <<>>
    /\ lidle = <<>>
    /\ lbusy = <<>>
    /\ lexited = <<>>
    /\ lreported = <<>>

\* EndOfPodLine is the marker line; NoPhase stands for a nil oldPod.
EndOfPodLine == 0
NoPhase == ""

\* No pod has been delivered.
NoStream ==
    [fpc |-> "off", follow |-> FALSE, pos |-> 0, cleans |-> 0, err |-> Nil,
     ch |-> <<>>, closed |-> FALSE, gpc |-> "off", lines |-> <<>>,
     batches |-> <<>>]

InitPodVars ==
    /\ pphase = "Pending"
    /\ pout = 0
    /\ ptracked = NoPhase
    /\ hpc = "idle"
    /\ hold = NoPhase
    /\ hnew = NoPhase
    /\ haction = "init"
    /\ hctx = FALSE
    /\ hexpired = FALSE
    /\ hresult = Nil
    /\ stream = NoStream
    /\ got = {}

\* No parsing call is made.
InitPureVars ==
    /\ qpc = "done"
    /\ qop = "none"
    /\ qin = <<>>
    /\ qres = [params |-> <<>>, err |-> Nil]

\* No Task is being converted.
InitTripVars ==
    /\ tpc = "new"
    /\ ttask = NoTask
    /\ torig = NoTask
    /\ tannotations = EmptyMap
    /\ tscript = FALSE
    /\ tjobs = 0
    /\ tback = [task |-> NoTask, err |-> Nil]

NoPrev == [name |-> <<>>, err |-> Nil, called |-> FALSE]
NoDeletion == [key |-> <<>>, owner |-> <<>>, err |-> Nil]

InitCleanVars ==
    /\ cpc = "idle"
    /\ ctask = NoTask
    /\ clist = {}
    /\ cerr = Nil
    /\ cfault = FALSE
    /\ cstolen = FALSE
    /\ cprev = NoPrev
    /\ gone = EmptyMap
    /\ lastDeleted = NoDeletion

\* The state RunTask leaves after it created the Jobs: every Job is in the
\* cluster and tracked with its initial status.  A Job that carries the
\* manager's label but not the Task annotation may also be in the cluster.
InitJob ==
    /\ InitCtl
    /\ InitCleanVars
    /\ InitLifeVars
    /\ InitTripVars
    /\ InitPodVars
    /\ InitPureVars
    /\ \E foreign \in SUBSET (1..NumJobs) :
        /\ jobs = [k \in JobKeys |->
                     LET i == CHOOSE n \in 1..NumJobs : ObjKey(RunTaskJob(n)) = k
                     IN IF i \in foreign
                        THEN [RunTaskJob(i) EXCEPT !.content = NoContent]
                        ELSE RunTaskJob(i)]
        /\ jobTracker = [k \in {ObjKey(RunTaskJob(i)) : i \in (1..NumJobs) \ foreign}
                           |-> JobStatusZero]
        /\ cms = [k \in {ObjKey(RunTaskConfigMap(i)) : i \in (1..NumJobs) \ foreign} |->
                     LET i == CHOOSE n \in 1..NumJobs : ObjKey(RunTaskConfigMap(n)) = k
                     IN RunTaskConfigMap(i)]
        /\ taskTracker = IF foreign = 1..NumJobs THEN EmptyMap
                         ELSE trackerStore(EmptyMap, ValidTask.ns, ValidTask.name,
                                           ValidTask.name)
    /\ rpc = "idle"
    /\ rtask = NoTask
    /\ rscript = NoScript
    /\ rcm = None
    /\ rjob = None
    /\ rerr = Nil
    /\ rstored = FALSE
    /\ rcreated = <<>>
    /\ rbefore = NoTables
    /\ runs = 0
    /\ fresh = [k \in JobKeys |-> TRUE]
    /\ last = NoDelivery
    /\ nSucceed = [k \in JobKeys |-> 0]
    /\ nFailed = [k \in JobKeys |-> 0]
    /\ deliveries = 0
    /\ reports = [k \in JobKeys |-> NoReport]

\* The cluster's Job controller updates the status of a Job that has not
\* finished; the counts of succeeded and failed pods never decrease.
JobStatusChange(k) ==
    /\ jobs[k].status.conds = <<>>
    /\ \E st \in JobStatuses :
          /\ st # jobs[k].status
          /\ st.succeeded >= jobs[k].status.succeeded
          /\ st.failed >= jobs[k].status.failed
          /\ jobs' = [jobs EXCEPT ![k].status = st]
    /\ fresh' = [fresh EXCEPT ![k] = TRUE]
    /\ UNCHANGED <<cms, taskTracker, jobTracker, rpc, rtask, rscript, rcm, rjob,
                   rerr, rstored, rcreated, rbefore, runs,
                   last, nSucceed, nFailed, deliveries, reports>>

CountOf(calls, cb) == Cardinality({i \in 1..Len(calls) : calls[i].cb = cb})

\* A worker runs onJobAddedUpdated with the cached snapshot of the Job: after
\* an add or update event, or after a resync that re-delivers an unchanged
\* Job.
JobDelivered(k) ==
    /\ deliveries < MaxDeliveries
    /\ LET res == onJobAddedUpdated(jobTracker, k, jobs[k]) IN
          /\ jobTracker' = res.tbl
          /\ last' = [key |-> k, snap |-> jobs[k].status, calls |-> res.calls,
                      err |-> res.err, skipped |-> res.skipped,
                      repeat |-> ~fresh[k]]
          /\ nSucceed' = [nSucceed EXCEPT ![k] = @ + CountOf(res.calls, "OnSucceed")]
          /\ nFailed' = [nFailed EXCEPT ![k] = @ + CountOf(res.calls, "OnFailed")]
          /\ reports' = [reports EXCEPT ![k] =
                            IF res.calls = <<>> THEN @
                            ELSE res.calls[Len(res.calls)].task]
    /\ fresh' = [fresh EXCEPT ![k] = FALSE]
    /\ deliveries' = deliveries + 1
    /\ UNCHANGED <<cms, jobs, taskTracker, rpc, rtask, rscript, rcm, rjob,
                   rerr, rstored, rcreated, rbefore, runs>>

\* ------------------------------------------------------------------------
\* CleanupTask and onJobDeleted
\* ------------------------------------------------------------------------
\* strings.LastIndex for a one-character separator; 0 stands for Go's -1.
LastIndex(input, sep) ==
    IF \E i \in 1..Len(input) : input[i] = sep
    THEN CHOOSE i \in 1..Len(input) :
            input[i] = sep /\ \A j \in (i + 1)..Len(input) : input[j] # sep
    ELSE 0

RemoveSuffixAtFirst(input, sep) ==
    LET index == IF \E i \in 1..Len(input) : input[i] = sep
                 THEN CHOOSE i \in 1..Len(input) :
                         input[i] = sep /\ \A j \in 1..(i - 1) : input[j] # sep
                 ELSE 0
    IN IF index = 0 THEN [val |-> <<>>, err |-> "the string does not contain the separator"]
       ELSE [val |-> SubSeq(input, 1, index - 1), err |-> Nil]
RemoveSuffix(input, sep) ==
    LET index == LastIndex(input, sep)
    IN IF index = 0 THEN [val |-> <<>>, err |-> "the string does not contain the separator"]
       ELSE [val |-> SubSeq(input, 1, index - 1), err |-> Nil]

\* manager.onJobDeleted: the tracking tables after the call and its result
onJobDeleted(jobTbl, taskTbl, key) ==
    LET r == RemoveSuffix(key, "-")
    IN [job |-> trackerDeleteByKey(jobTbl, key),
        task |-> IF r.err = Nil THEN trackerDeleteByKey(taskTbl, r.val) ELSE taskTbl,
        err |-> IF r.err = Nil THEN Nil ELSE "onJobDeleted, failed to get taskKey"]

\* CleanupTask's selector: the manager's labels plus the Task's name
cleanupLabels(t) == MapSet(ManagerLabelsDefault, TaskNameLabelKey, t.name)

\* A selector of selection.Equals requirements, one per selected label
labelsMatchNotEquals(objLabels, selected) ==
    \A key \in DOMAIN selected :
        key \notin DOMAIN objLabels \/ objLabels[key] # selected[key]
labelsMatch(objLabels, selected) ==
    \A key \in DOMAIN selected :
        key \in DOMAIN objLabels /\ objLabels[key] = selected[key]

\* Clientset.ListJob / Clientset.ListConfigMap with a namespace and labels:
\* the keys of the objects listed
ListJob(cluster, ns, selected) ==
    {k \in DOMAIN cluster : cluster[k].ns = ns /\ labelsMatch(cluster[k].labels, selected)}
ListConfigMap(cluster, ns, selected) ==
    {k \in DOMAIN cluster : cluster[k].ns = ns /\ labelsMatch(cluster[k].labels, selected)}

NotFound == "NotFound"

\* Clientset.DeleteJob: the Delete request fails with NotFound for an absent
\* Job; otherwise the call returns once the Job is gone from the cluster.
DeleteJobNoWait(cluster, key) ==
    IF key \in DOMAIN cluster THEN [cluster |-> cluster, err |-> Nil]
    ELSE [cluster |-> cluster, err |-> NotFound]
DeleteJob(cluster, key) ==
    IF key \in DOMAIN cluster THEN [cluster |-> MapDelete(cluster, key), err |-> Nil]
    ELSE [cluster |-> cluster, err |-> NotFound]

\* Clientset.DeleteConfigMap returns the result of the Delete request.
DeleteConfigMap(cluster, key) ==
    IF key \in DOMAIN cluster THEN [cluster |-> MapDelete(cluster, key), err |-> Nil]
    ELSE [cluster |-> cluster, err |-> NotFound]

\* The Tasks of this specification; the name of the second one contains the
\* separator RemoveSuffix looks for.
DashedTask == [ValidTask EXCEPT !.name = <<"t", "-", "x">>]
CleanTasks == {ValidTask, DashedTask}

\* What RunTask(t) creates when the name generator draws the suffix r
TaskJob(t, r) ==
    LET sname == GenerateName2Name(t.name, r)
        lbl == RunTaskLabels(t, sname)
        cm == GenerateConfigMap(sname, t.ns, t.content, lbl, r)
    IN GenerateJob(t, lbl, cm.name, r)

TaskConfigMap(t, r) ==
    LET sname == GenerateName2Name(t.name, r)
    IN GenerateConfigMap(sname, t.ns, t.content, RunTaskLabels(t, sname), r)

OwnerKey(job) == MetaNamespaceKey(job.content.ns, job.content.name)

\* The RunTask calls that preceded: one per suffix for ValidTask, one for
\* DashedTask.
Ran == (({ValidTask} \X Suffixes) \cup {<<DashedTask, <<"a">>>>})

\* The state those calls leave when all succeed: every Job and ConfigMap is
\* in the cluster, and the Tasks and the Jobs are tracked.
InitClean ==
    /\ InitCtl
    /\ InitJobVars
    /\ InitCleanVars
    /\ InitLifeVars
    /\ InitTripVars
    /\ InitPodVars
    /\ InitPureVars
    /\ LET ran == Ran IN
        /\ jobs = [k \in {ObjKey(TaskJob(p[1], p[2])) : p \in ran} |->
                     LET p == CHOOSE q \in ran : ObjKey(TaskJob(q[1], q[2])) = k
                     IN TaskJob(p[1], p[2])]
        /\ cms = [k \in {ObjKey(TaskConfigMap(p[1], p[2])) : p \in ran} |->
                     LET p == CHOOSE q \in ran : ObjKey(TaskConfigMap(q[1], q[2])) = k
                     IN TaskConfigMap(p[1], p[2])]
        /\ jobTracker = [k \in {ObjKey(TaskJob(p[1], p[2])) : p \in ran} |-> JobStatusZero]
        /\ taskTracker = [k \in {MetaNamespaceKey(t.ns, t.name) : t \in CleanTasks} |->
                            LET t == CHOOSE u \in CleanTasks :
                                        MetaNamespaceKey(u.ns, u.name) = k
                            IN t.name]
    /\ rpc = "idle"
    /\ rtask = NoTask
    /\ rscript = NoScript
    /\ rcm = None
    /\ rjob = None
    /\ rerr = Nil
    /\ rstored = FALSE
    /\ rcreated = <<>>
    /\ rbefore = NoTables
    /\ runs = 0

runLocals == <<rpc, rtask, rscript, rcm, rjob, rerr, rstored, rcreated, rbefore, runs>>

\* CleanupTask is called (lines 308-310)
CleanupTaskCall ==
    /\ cpc \in {"idle", "returned"}
    /\ \E t \in CleanTasks : ctask' = t
    /\ cprev' = IF cpc = "returned" /\ cerr = Nil
                THEN [name |-> ctask.name, err |-> cerr, called |-> TRUE]
                ELSE NoPrev
    /\ cpc' = "listJobs"
    /\ clist' = {}
    /\ cerr' = Nil
    /\ cfault' = FALSE
    /\ cstolen' = FALSE
    /\ UNCHANGED <<cms, jobs, taskTracker, jobTracker, runLocals, gone, lastDeleted>>

\* An API request of CleanupTask fails for a reason of its own (transport,
\* time-out): CleanupTask returns the error.
CleanupRequestFails ==
    /\ cpc \in {"listJobs", "deleteJobs", "deleteConfigMaps"}
    /\ cpc = "deleteConfigMaps" => clist # {}
    /\ cerr' = "request failed"
    /\ cfault' = TRUE
    /\ cpc' = "returned"
    /\ UNCHANGED <<cms, jobs, taskTracker, jobTracker, runLocals, ctask, clist,
                   cstolen, cprev, gone, lastDeleted>>

\* lines 313-316: the Jobs carrying the labels are listed
CleanupListJobs ==
    /\ cpc = "listJobs"
    /\ clist' = ListJob(jobs, ctask.ns, cleanupLabels(ctask))
    /\ cpc' = "deleteJobs"
    /\ UNCHANGED <<cms, jobs, taskTracker, jobTracker, runLocals, ctask, cerr,
                   cfault, cstolen, cprev, gone, lastDeleted>>

\* lines 319-323: one iteration of the loop over the listed Jobs
CleanupDeleteJob ==
    /\ cpc = "deleteJobs"
    /\ \E k \in clist :
        LET res == DeleteJob(jobs, k) IN
          /\ jobs' = res.cluster
          /\ gone' = IF k \in DOMAIN jobs /\ k \notin DOMAIN res.cluster
                     THEN MapSet(gone, k, OwnerKey(jobs[k])) ELSE gone
          /\ IF res.err # Nil
             THEN /\ cerr' = res.err
                  /\ cpc' = "returned"
                  /\ clist' = clist
             ELSE /\ clist' = clist \ {k}
                  /\ UNCHANGED <<cerr, cpc>>
    /\ UNCHANGED <<cms, taskTracker, jobTracker, runLocals, ctask, cfault,
                   cstolen, cprev, lastDeleted>>

\* lines 326-329: after the last Job, the ConfigMaps carrying the labels are
\* listed
CleanupListConfigMaps ==
    /\ cpc = "deleteJobs"
    /\ clist = {}
    /\ clist' = ListConfigMap(cms, ctask.ns, cleanupLabels(ctask))
    /\ cpc' = "deleteConfigMaps"
    /\ UNCHANGED <<cms, jobs, taskTracker, jobTracker, runLocals, ctask, cerr,
                   cfault, cstolen, cprev, gone, lastDeleted>>

\* lines 332-336: one iteration of the loop over the listed ConfigMaps
CleanupDeleteConfigMap ==
    /\ cpc = "deleteConfigMaps"
    /\ \E k \in clist :
        LET res == DeleteConfigMap(cms, k) IN
          /\ cms' = res.cluster
          /\ IF res.err # Nil
             THEN /\ cerr' = res.err
                  /\ cpc' = "returned"
                  /\ clist' = clist
             ELSE /\ clist' = clist \ {k}
                  /\ UNCHANGED <<cerr, cpc>>
    /\ UNCHANGED <<jobs, taskTracker, jobTracker, runLocals, ctask, cfault,
                   cstolen, cprev, gone, lastDeleted>>

\* line 338: return nil
CleanupReturn ==
    /\ cpc = "deleteConfigMaps"
    /\ clist = {}
    /\ cerr' = Nil
    /\ cpc' = "returned"
    /\ UNCHANGED <<cms, jobs, taskTracker, jobTracker, runLocals, ctask, clist,
                   cfault, cstolen, cprev, gone, lastDeleted>>

\* Another actor (the TTL controller, an operator, a concurrent cleanup)
\* deletes a Job or a ConfigMap.
OtherActorDeletesJob(k) ==
    /\ k \in DOMAIN jobs
    /\ jobs' = MapDelete(jobs, k)
    /\ gone' = MapSet(gone, k, OwnerKey(jobs[k]))
    /\ cstolen' = (cstolen \/ (cpc = "deleteJobs" /\ k \in clist))
    /\ UNCHANGED <<cms, taskTracker, jobTracker, runLocals, cpc, ctask, clist,
                   cerr, cfault, cprev, lastDeleted>>

OtherActorDeletesConfigMap(k) ==
    /\ k \in DOMAIN cms
    /\ cms' = MapDelete(cms, k)
    /\ cstolen' = (cstolen \/ (cpc = "deleteConfigMaps" /\ k \in clist))
    /\ UNCHANGED <<jobs, taskTracker, jobTracker, runLocals, cpc, ctask, clist,
                   cerr, cfault, cprev, gone, lastDeleted>>

\* The controller processes the deletion of a Job: the key is no longer in
\* the indexer, so processBusiness calls onJobDeleted(key).
JobDeletionProcessed(k) ==
    /\ k \in DOMAIN gone
    /\ LET res == onJobDeleted(jobTracker, taskTracker, k) IN
          /\ jobTracker' = res.job
          /\ taskTracker' = res.task
          /\ lastDeleted' = [key |-> k, owner |-> gone[k], err |-> res.err]
    /\ gone' = MapDelete(gone, k)
    /\ UNCHANGED <<cms, jobs, runLocals, cpc, ctask, clist, cerr, cfault,
                   cstolen, cprev>>

\* ------------------------------------------------------------------------
\* Controller life cycle: constructors, Run, MasterController.Run
\* ------------------------------------------------------------------------
\* controller.go:61, handler.go:20, part_003:22
defaultWorkers == 3

\* The three controller variants of the package
Variants == {"controller", "Handler", "baseHandler"}

\* newController (controller.go:148-151) and newBaseHandler (part_003:113-115)
workersOfController(n) == IF n <= 0 THEN defaultWorkers ELSE n

\* NewHandler (handler.go:83-85)
workersOfHandler(n) == IF n >= 0 THEN defaultWorkers ELSE n

workersOf(variant, n) ==
    IF variant = "Handler" THEN workersOfHandler(n) ELSE workersOfController(n)

\* cache.WaitForCacheSync(stopCh, HasSynced): the results the call can give.
\* It polls HasSynced until it is true or the stop channel is closed; when
\* both happen between two polls either result is possible.
waitForCacheSyncSkipped(synced, stopped) == {TRUE}
waitForCacheSync(synced, stopped) ==
    (IF synced THEN {TRUE} ELSE {}) \cup (IF stopped THEN {FALSE} ELSE {})

\* defer c.queue.ShutDown()
shutDownForgotten(q) == q
shutDown(q) == [q EXCEPT !.shuttingDown = TRUE]

\* queue.Add: ignored once the queue is shutting down; a key that is already
\* queued is not queued twice
lifeAdd(q, k) ==
    IF q.shuttingDown THEN q ELSE [q EXCEPT !.items = @ \cup {k}]

\* `for i := 0; i < c.workers; i++`: the number of worker loops started
workersStarted(n) == IF n > 0 THEN n ELSE 0

Controllers == 1..NumControllers
\* The numbers of workers a caller configures, and the keys of the watched
\* objects
ConfiguredWorkers == {-1, 0, 1}
LifeKeys == {"default/job"}

lifeLocals == <<lvariant, lconfigured, lworkers>>

\* MasterController.Run is called: with no controller it returns an error,
\* otherwise it starts one goroutine per controller with the same stop channel.
MasterRun ==
    /\ mpc = "new"
    /\ mpc' = "serving"
    /\ lpc' = [c \in Controllers |-> "go"]
    /\ UNCHANGED <<lifeLocals, mctx, lstop, lsynced, lqueue, lidle, lbusy,
                   lexited, lreported>>

\* The caller cancels the context given to MasterController.Run.
CtxCancel ==
    /\ ~mctx
    /\ mctx' = TRUE
    /\ UNCHANGED <<lifeLocals, mpc, lpc, lstop, lsynced, lqueue, lidle, lbusy,
                   lexited, lreported>>

\* case <-ctx.Done(): return ctx.Err(), and the deferred close(stop)
MasterReturn ==
    /\ mpc = "serving"
    /\ mctx
    /\ mpc' = "returned"
    /\ lstop' = TRUE
    /\ UNCHANGED <<lifeLocals, mctx, lpc, lsynced, lqueue, lidle, lbusy,
                   lexited, lreported>>

\* Run: go c.informer.Run(stopCh), then WaitForCacheSync
RunStart(c) ==
    /\ lpc[c] = "go"
    /\ lpc' = [lpc EXCEPT ![c] = "waitSync"]
    /\ UNCHANGED <<lifeLocals, mpc, mctx, lstop, lsynced, lqueue, lidle, lbusy,
                   lexited, lreported>>

InformerRunning(c) == lpc[c] \in {"waitSync", "serving"} /\ ~lstop

\* The informer delivers an object (of the initial list or of the watch) to
\* AddFunc / UpdateFunc / DeleteFunc, which add its key to the queue.
InformerDelivers(c) ==
    /\ InformerRunning(c)
    /\ \E k \in LifeKeys \ lqueue[c].items :
          lqueue' = [lqueue EXCEPT ![c] = lifeAdd(@, k)]
    /\ UNCHANGED <<lifeLocals, mpc, mctx, lpc, lstop, lsynced, lidle, lbusy,
                   lexited, lreported>>

\* The informer has delivered its initial list: HasSynced turns true.
InformerSynced(c) ==
    /\ InformerRunning(c)
    /\ ~lsynced[c]
    /\ lsynced' = [lsynced EXCEPT ![c] = TRUE]
    /\ UNCHANGED <<lifeLocals, mpc, mctx, lpc, lstop, lqueue, lidle, lbusy,
                   lexited, lreported>>

\* Run, lines 238-245: WaitForCacheSync returns; on failure the error is
\* reported and Run returns (the deferred ShutDown runs), otherwise the
\* worker loops are started.
RunWaitSync(c) ==
    /\ lpc[c] = "waitSync"
    /\ \E ok \in waitForCacheSync(lsynced[c], lstop) :
          IF ok
          THEN /\ lidle' = [lidle EXCEPT ![c] = workersStarted(lworkers)]
               /\ lpc' = [lpc EXCEPT ![c] = "serving"]
               /\ UNCHANGED <<lqueue, lreported>>
          ELSE /\ lreported' = [lreported EXCEPT ![c] = TRUE]
               /\ lqueue' = [lqueue EXCEPT ![c] = shutDown(@)]
               /\ lpc' = [lpc EXCEPT ![c] = "returned"]
               /\ UNCHANGED lidle
    /\ UNCHANGED <<lifeLocals, mpc, mctx, lstop, lsynced, lbusy, lexited>>

\* Run, line 247: <-stopCh, then the deferred ShutDown
RunStop(c) ==
    /\ lpc[c] = "serving"
    /\ lstop
    /\ lqueue' = [lqueue EXCEPT ![c] = shutDown(@)]
    /\ lpc' = [lpc EXCEPT ![c] = "returned"]
    /\ UNCHANGED <<lifeLocals, mpc, mctx, lstop, lsynced, lidle, lbusy,
                   lexited, lreported>>

\* processNextItem: queue.Get hands an item to a waiting worker, which runs
\* the callback.
RunWorkerGet(c) ==
    /\ lidle[c] > 0
    /\ \E k \in lqueue[c].items :
          lqueue' = [lqueue EXCEPT ![c].items = @ \ {k}]
    /\ lidle' = [lidle EXCEPT ![c] = @ - 1]
    /\ lbusy' = [lbusy EXCEPT ![c] = @ + 1]
    /\ UNCHANGED <<lifeLocals, mpc, mctx, lpc, lstop, lsynced, lexited, lreported>>

\* The callback returns; handleErr forgets the key or adds it again, and the
\* worker calls queue.Get again.
RunWorkerDone(c) ==
    /\ lbusy[c] > 0
    /\ \E retry \in BOOLEAN, k \in LifeKeys :
          lqueue' = [lqueue EXCEPT ![c] = IF retry THEN lifeAdd(@, k) ELSE @]
    /\ lbusy' = [lbusy EXCEPT ![c] = @ - 1]
    /\ lidle' = [lidle EXCEPT ![c] = @ + 1]
    /\ UNCHANGED <<lifeLocals, mpc, mctx, lpc, lstop, lsynced, lexited, lreported>>

\* processNextItem, lines 158-161: queue.Get reports quit once the queue is
\* shut down and empty; runWorker returns and wait.Until sees the closed
\* stop channel.
RunWorkerQuit(c) ==
    /\ lidle[c] > 0
    /\ lqueue[c].items = {}
    /\ lqueue[c].shuttingDown
    /\ lidle' = [lidle EXCEPT ![c] = @ - 1]
    /\ lexited' = [lexited EXCEPT ![c] = @ + 1]
    /\ UNCHANGED <<lifeLocals, mpc, mctx, lpc, lstop, lsynced, lqueue, lbusy,
                   lreported>>

\* The controllers of one MasterController, all built by the same
\* constructor with the same configured number of workers.
InitLife ==
    /\ InitCtl
    /\ InitRunVars
    /\ InitJobVars
    /\ InitCleanVars
    /\ InitTripVars
    /\ InitPodVars
    /\ InitPureVars
    /\ lvariant \in Variants
    /\ lconfigured \in ConfiguredWorkers
    /\ lworkers = workersOf(lvariant, lconfigured)
    /\ mpc = "new"
    /\ mctx = FALSE
    /\ lpc = [c \in Controllers |-> "new"]
    /\ lstop = FALSE
    /\ lsynced = [c \in Controllers |-> FALSE]
    /\ lqueue = [c \in Controllers |-> [items |-> {}, shuttingDown |-> FALSE]]
    /\ lidle = [c \in Controllers |-> 0]
    /\ lbusy = [c \in Controllers |-> 0]
    /\ lexited = [c \in Controllers |-> 0]
    /\ lreported = [c \in Controllers |-> FALSE]

\* ------------------------------------------------------------------------
\* The Task content annotation: SetContentToAnnotation and Job2Task
\* ------------------------------------------------------------------------
TaskContentAnnotation == "kbatch.k8sutils.ppops.cn/task-content"

\* encoding/json, `omitempty` on a pointer field: the key is written when the
\* pointer is not nil (a nil pointer is the empty sequence)
writtenWhenNonZero(p) == p # <<>> /\ p[1] # 0
writtenWhenSet(p) == p # <<>>

\* json.Marshal(t) for a *Task: metadata and spec; Status has the tag "-".
\* A JSON object is a record of its values and the set of optional keys
\* written.
MarshalTask(t, annotations) ==
    [metadata |-> [name |-> t.name, namespace |-> t.ns, labels |-> t.labels,
                   annotations |-> annotations],
     spec |-> [script |-> [content |-> t.content, executor |-> t.executor],
               image |-> t.image,
               written |-> {k \in {"privilege"} : t.privilege # None}
                           \cup {k \in {"activeDeadlineSeconds"} : writtenWhenSet(t.deadline)}
                           \cup {k \in {"backoffLimit"} : writtenWhenSet(t.backoff)},
               privilege |-> IF t.privilege = None THEN "" ELSE t.privilege,
               activeDeadlineSeconds |-> IF t.deadline = <<>> THEN 0 ELSE t.deadline[1],
               backoffLimit |-> IF t.backoff = <<>> THEN 0 ELSE t.backoff[1]]]

\* json.Unmarshal into a nil *Task: a key that was not written leaves the
\* field nil
UnmarshalTask(j) ==
    [name |-> j.metadata.name, ns |-> j.metadata.namespace,
     image |-> j.spec.image, content |-> j.spec.script.content,
     executor |-> j.spec.script.executor,
     privilege |-> IF "privilege" \in j.spec.written THEN j.spec.privilege ELSE None,
     deadline |-> IF "activeDeadlineSeconds" \in j.spec.written
                  THEN <<j.spec.activeDeadlineSeconds>> ELSE <<>>,
     backoff |-> IF "backoffLimit" \in j.spec.written
                 THEN <<j.spec.backoffLimit>> ELSE <<>>,
     labels |-> j.metadata.labels]

\* Task.SetContentToAnnotation: the annotations of the Task afterwards
SetContentToAnnotation(t, annotations) ==
    LET cleared == IF DOMAIN annotations # {}
                   THEN MapDelete(annotations, TaskContentAnnotation)
                   ELSE annotations
    IN MapSet(cleared, TaskContentAnnotation, MarshalTask(t, cleared))

\* Job2Task, lines 772-786: the Task rebuilt from a Job's annotations
Job2TaskContent(annotations) ==
    IF DOMAIN annotations = {}
    THEN [task |-> NoTask, err |-> "job annotations is nil"]
    ELSE IF TaskContentAnnotation \notin DOMAIN annotations
    THEN [task |-> NoTask, err |-> "task content is empty"]
    ELSE [task |-> UnmarshalTask(annotations[TaskContentAnnotation]), err |-> Nil]

\* Tasks that pass the checks of Task.Validate and TaskSpec.Validate, as
\* NewTask and its options build them
TripTasks ==
    { [ValidTask EXCEPT !.privilege = p, !.deadline = d, !.backoff = b, !.labels = l] :
        p \in {None, "HostRoot", "ClusterRoot"},
        d \in {<<>>, <<1>>},
        b \in {<<>>, <<0>>, <<1>>},
        l \in {EmptyMap, MapSet(EmptyMap, "team", "a")} }

TripAnnotations == {EmptyMap, MapSet(EmptyMap, "note", "x")}

Spec_(t) == [image |-> t.image, content |-> t.content, executor |-> t.executor,
             privilege |-> t.privilege, deadline |-> t.deadline,
             backoff |-> t.backoff]

InitTrip ==
    /\ InitCtl
    /\ InitRunVars
    /\ InitJobVars
    /\ InitCleanVars
    /\ InitLifeVars
    /\ InitPodVars
    /\ InitPureVars
    /\ tpc = "new"
    /\ ttask \in TripTasks
    /\ torig = ttask
    /\ tannotations \in TripAnnotations
    /\ tscript = FALSE
    /\ tjobs = 0
    /\ tback = [task |-> NoTask, err |-> Nil]

\* Task.GenerateScript (lines 596-631): when the Task has labels, the label
\* map handed to the Script is the Task's own map.
TripGenerateScript ==
    /\ tpc = "new"
    /\ TaskValidate(ttask) = Nil
    /\ ttask' = IF DOMAIN ttask.labels # {}
                   THEN [ttask EXCEPT !.labels =
                            WithTaskLabel(@, ttask.name)]
                   ELSE ttask
    /\ tscript' = TRUE
    /\ tpc' = "scripted"
    /\ UNCHANGED <<torig, tannotations, tjobs, tback>>

\* Task.GenerateJob (lines 633-716): the annotations set on the Job are the
\* Task's own annotation map, so every Job generated from the Task shares
\* it.
TripGenerateJob ==
    /\ tpc \in {"scripted", "generated"}
    /\ tjobs < MaxGenerate
    /\ TaskValidate(ttask) = Nil
    /\ tscript
    /\ tannotations' = SetContentToAnnotation(ttask, tannotations)
    /\ ttask' = IF DOMAIN ttask.labels # {}
                THEN [ttask EXCEPT !.labels = WithTaskLabel(@, ttask.name)]
                ELSE ttask
    /\ tjobs' = tjobs + 1
    /\ tpc' = "generated"
    /\ UNCHANGED <<torig, tscript, tback>>

\* Job2Task is called with a Job that GenerateJob returned.
TripJob2Task ==
    /\ tpc = "generated"
    /\ tback' = Job2TaskContent(tannotations)
    /\ tpc' = "parsed"
    /\ UNCHANGED <<ttask, torig, tannotations, tscript, tjobs>>

\* ------------------------------------------------------------------------
\* onPodAddedUpdated and the log pipeline
\* ------------------------------------------------------------------------
\* A log line is its position in the pod's output (1, 2, ...); the marker
\* line appended by the final flush is EndOfPodLine.
Terminal == {"Succeeded", "Failed"}

\* The pod's output has at most MaxLines lines: more than one full buffer.
MaxLines == initBufSize + 1

\* manager.go:452-460 and the switch at 487-511: what the handler does
\* with the logs for a tracked previous phase (NoPhase: no tracked pod) and
\* the phase of the pod delivered
logActionRefetching(older, newer) ==
    IF older = newer THEN "noop"
    ELSE IF newer = "Running" THEN "follow"
    ELSE IF newer \in Terminal THEN "full"
    ELSE "none"
logAction(older, newer) ==
    IF older = newer THEN "noop"
    ELSE IF newer = "Running" THEN "follow"
    ELSE IF newer \in Terminal
         THEN (IF older = "Running" THEN "skip" ELSE "full")
    ELSE "none"

\* getOrTailLogs, line 585: defer close(logsCh)
closeLogsChForgotten(s) == s
closeLogsCh(s) == [s EXCEPT !.closed = TRUE]

\* doFlush, lines 517-519: nothing is delivered for an empty buffer unless
\* the channel was closed
flushNeverSkips(lines, isEof) == FALSE
flushSkips(lines, isEof) == Len(lines) = 0 /\ ~isEof

\* doFlush, lines 520-527: the batch handed to OnLogs
flushBatchAlwaysMarked(lines, isEof) == Append(lines, EndOfPodLine)
flushBatch(lines, isEof) ==
    IF isEof THEN Append(lines, EndOfPodLine) ELSE lines

\* OnLogs calls made by doFlush(isEof) with the buffer `lines`
doFlush(lines, isEof) ==
    IF flushSkips(lines, isEof) THEN <<>> ELSE <<flushBatch(lines, isEof)>>

\* lines 546-552: the buffer after a line was received; a full buffer is
\* flushed first
afterRecvDropping(lines, line) ==
    IF Len(lines) >= initBufSize THEN <<>> ELSE Append(lines, line)
afterRecv(lines, line) ==
    IF Len(lines) >= initBufSize THEN <<line>> ELSE Append(lines, line)

\* ---- the cluster ----
\* The pod's phase moves forward.
PodAdvance ==
    /\ \/ pphase = "Pending" /\ pphase' \in {"Running", "Failed"}
       \/ pphase = "Running" /\ pphase' \in Terminal
    /\ UNCHANGED <<pout, ptracked, hpc, hold, hnew, haction, hctx, hexpired,
                   hresult, stream, got>>

\* A running pod writes a line.
PodWrites ==
    /\ pphase = "Running"
    /\ pout < MaxLines
    /\ pout' = pout + 1
    /\ UNCHANGED <<pphase, ptracked, hpc, hold, hnew, haction, hctx, hexpired,
                   hresult, stream, got>>

\* ---- onPodAddedUpdated, called by a worker with the pod in the informer's
\* cache ----
\* lines 452-460 and 462-479: the no-op test; otherwise the context is
\* derived, the pod is stored in podTracker and OnStatusUpdate is called.
PodHandlerStart ==
    /\ hpc = "idle"
    /\ hold' = ptracked
    /\ hnew' = pphase
    /\ IF logAction(ptracked, pphase) = "noop"
       THEN /\ haction' = "noop"
            /\ hresult' = Nil
            /\ UNCHANGED <<ptracked, hpc, hctx, hexpired, stream>>
       ELSE /\ ptracked' = pphase
            /\ hpc' = "callback"
            /\ haction' = "callback"
            /\ hctx' = FALSE
            /\ hexpired' = FALSE
            /\ stream' = NoStream
            /\ UNCHANGED hresult
    /\ UNCHANGED <<pphase, pout, got>>

\* context.WithTimeout(context.Background(), callBackMaxRuntime): the
\* deadline passes while the handler is running.
DeadlineExpires ==
    /\ hpc \in {"callback", "fetch"}
    /\ ~hctx
    /\ hctx' = TRUE
    /\ hexpired' = (hpc = "callback")
    /\ UNCHANGED <<pphase, pout, ptracked, hpc, hold, hnew, haction, hresult,
                   stream, got>>

\* OnStatusUpdate returns (it has no result); lines 481-511 start the
\* goroutines the phase asks for, or close the channel and return nil.
StatusCallbackReturns ==
    /\ hpc = "callback"
    /\ haction' = logAction(hold, hnew)
    /\ IF haction' \in {"follow", "full"}
       THEN /\ hpc' = "fetch"
            /\ stream' = [NoStream EXCEPT
                        !.fpc = IF haction' = "full" THEN "clean" ELSE "open",
                        !.follow = (haction' = "follow"),
                        !.gpc = "run"]
            /\ UNCHANGED hresult
       ELSE /\ hpc' = "idle"
            /\ hresult' = Nil
            /\ stream' = [NoStream EXCEPT !.closed = TRUE]
    /\ UNCHANGED <<pphase, pout, ptracked, hold, hnew, hctx, hexpired, got>>

\* line 503: CleanAllLogs returns
FetchClean ==
    /\ hpc = "fetch"
    /\ stream.fpc = "clean"
    /\ stream' = [stream EXCEPT !.cleans = @ + 1, !.fpc = "open"]
    /\ UNCHANGED <<pphase, pout, ptracked, hpc, hold, hnew, haction, hctx,
                   hexpired, hresult, got>>

\* getOrTailLogs, lines 585-594: req.Stream(ctx) fails when the context is
\* done; the deferred close(logsCh) runs.
FetchOpen ==
    /\ hpc = "fetch"
    /\ stream.fpc = "open"
    /\ stream' = IF hctx
             THEN closeLogsCh([stream EXCEPT !.fpc = "done", !.err = "err"])
             ELSE [stream EXCEPT !.fpc = "read"]
    /\ UNCHANGED <<pphase, pout, ptracked, hpc, hold, hnew, haction, hctx,
                   hexpired, hresult, got>>

\* lines 599-613: a line is read and sent on the channel (the send blocks
\* while the channel is full)
FetchLine ==
    /\ hpc = "fetch"
    /\ stream.fpc = "read"
    /\ stream.pos < pout
    /\ Len(stream.ch) < initBufSize
    /\ stream' = [stream EXCEPT !.pos = @ + 1, !.ch = Append(@, stream.pos + 1)]
    /\ UNCHANGED <<pphase, pout, ptracked, hpc, hold, hnew, haction, hctx,
                   hexpired, hresult, got>>

\* lines 601-604: io.EOF, once the pod has terminated and its output was
\* read
FetchEOF ==
    /\ hpc = "fetch"
    /\ stream.fpc = "read"
    /\ stream.pos = pout
    /\ pphase \in Terminal
    /\ stream' = closeLogsCh([stream EXCEPT !.fpc = "done", !.err = Nil])
    /\ UNCHANGED <<pphase, pout, ptracked, hpc, hold, hnew, haction, hctx,
                   hexpired, hresult, got>>

\* lines 601-606: the read fails because the context is done
FetchAbort ==
    /\ hpc = "fetch"
    /\ stream.fpc = "read"
    /\ hctx
    /\ stream' = closeLogsCh([stream EXCEPT !.fpc = "done", !.err = "err"])
    /\ UNCHANGED <<pphase, pout, ptracked, hpc, hold, hnew, haction, hctx,
                   hexpired, hresult, got>>

Delivered(batches) ==
    UNION {{batches[i][j] : j \in 1..Len(batches[i])} : i \in 1..Len(batches)}
        \ {EndOfPodLine}

\* lines 535-552: a line is received from the channel
FlushRecv ==
    /\ hpc = "fetch"
    /\ stream.gpc = "run"
    /\ stream.ch # <<>>
    /\ LET calls == IF Len(stream.lines) >= initBufSize
                    THEN doFlush(stream.lines, FALSE) ELSE <<>>
       IN /\ stream' = [stream EXCEPT !.ch = Tail(@),
                              !.lines = afterRecv(@, Head(stream.ch)),
                              !.batches = @ \o calls]
          /\ got' = got \cup Delivered(calls)
    /\ UNCHANGED <<pphase, pout, ptracked, hpc, hold, hnew, haction, hctx,
                   hexpired, hresult>>

\* lines 554-558: the ticker fires
FlushTick ==
    /\ hpc = "fetch"
    /\ stream.gpc = "run"
    /\ LET calls == doFlush(stream.lines, FALSE)
       IN /\ stream' = [stream EXCEPT !.lines = IF calls = <<>> THEN @ ELSE <<>>,
                              !.batches = @ \o calls]
          /\ got' = got \cup Delivered(calls)
    /\ UNCHANGED <<pphase, pout, ptracked, hpc, hold, hnew, haction, hctx,
                   hexpired, hresult>>

\* lines 537-544: the channel is closed and drained; the last flush
FlushClosed ==
    /\ hpc = "fetch"
    /\ stream.gpc = "run"
    /\ stream.ch = <<>>
    /\ stream.closed
    /\ LET calls == doFlush(stream.lines, TRUE)
       IN /\ stream' = [stream EXCEPT !.lines = <<>>, !.batches = @ \o calls,
                              !.gpc = "done"]
          /\ got' = got \cup Delivered(calls)
    /\ UNCHANGED <<pphase, pout, ptracked, hpc, hold, hnew, haction, hctx,
                   hexpired, hresult>>

\* line 561 and 565-571: g.Wait() returns the error of getOrTailLogs
PodHandlerReturn ==
    /\ hpc = "fetch"
    /\ stream.fpc = "done"
    /\ stream.gpc = "done"
    /\ hpc' = "idle"
    /\ hresult' = stream.err
    /\ UNCHANGED <<pphase, pout, ptracked, hold, hnew, haction, hctx,
                   hexpired, stream, got>>

InitPod ==
    /\ InitCtl
    /\ InitRunVars
    /\ InitJobVars
    /\ InitCleanVars
    /\ InitLifeVars
    /\ InitTripVars
    /\ InitPodVars
    /\ InitPureVars

\* ------------------------------------------------------------------------
\* Parsing: log lines (getOrTailLogs) and script arguments (Args2Parameters)
\* ------------------------------------------------------------------------
\* A string is a sequence of characters.  In a log line "T" stands for a
\* token time.Parse accepts as RFC3339Nano, "x" for any other character.
LineChars == {"T", "x", " "}
Strings(chars, n) == UNION {[1..m -> chars] : m \in 0..n}

\* strings.SplitN(line, " ", 2)
SplitN2(line) ==
    IF \E i \in 1..Len(line) : line[i] = " "
    THEN LET i == CHOOSE j \in 1..Len(line) :
                     line[j] = " " /\ \A l \in 1..(j - 1) : line[l] # " "
         IN <<SubSeq(line, 1, i - 1), SubSeq(line, i + 1, Len(line))>>
    ELSE <<line>>

\* time.Parse(time.RFC3339Nano, token): the zero time on error
ZeroTime == "0001-01-01T00:00:00Z"
timeParse(token) == IF token = <<"T">> THEN "T" ELSE ZeroTime

\* getOrTailLogs, lines 608-613: the LogLine sent for a line read; lst[1]
\* of a one-element slice is an index out of range
parseLine(line) ==
    LET lst == SplitN2(line) IN
    IF Len(lst) < 2
    THEN [panic |-> TRUE, timestamp |-> ZeroTime, message |-> <<>>]
    ELSE [panic |-> FALSE, timestamp |-> timeParse(lst[1]), message |-> lst[2]]

\* Parameter.Validate
ParameterValidate(p) ==
    IF Len(p.key) = 0 \/ Len(p.key) >= 32
    THEN "invalid parameter name, length must be between 1 and 32"
    ELSE IF ~(/\ p.key[1] = "-"
              /\ Len(p.key) >= 2
              /\ \A i \in 1..Len(p.key) : p.key[i] \in {"-", "k", "v"})
    THEN "invalid parameter name, must match pattern"
    ELSE IF p.value = <<>>
    THEN "invalid parameter value, must not be empty"
    ELSE Nil

\* Parameters.Validate: the error of the first invalid Parameter
ParametersValidate(ps) ==
    IF \E i \in 1..Len(ps) : ParameterValidate(ps[i]) # Nil
    THEN ParameterValidate(ps[CHOOSE i \in 1..Len(ps) :
             /\ ParameterValidate(ps[i]) # Nil
             /\ \A j \in 1..(i - 1) : ParameterValidate(ps[j]) = Nil])
    ELSE Nil

\* Parameters.Args
ArgsValueFirst(ps) ==
    [i \in 1..(2 * Len(ps)) |->
        IF i % 2 = 1 THEN ps[(i + 1) \div 2].value ELSE ps[i \div 2].key]
Args(ps) ==
    [i \in 1..(2 * Len(ps)) |->
        IF i % 2 = 1 THEN ps[(i + 1) \div 2].key ELSE ps[i \div 2].value]

\* Args2Parameters: the loop runs for i = 0, 2, ... while i < len(args)-1
Args2Parameters(args) ==
    IF Len(args) <= 1
    THEN [params |-> <<>>, err |-> "args cannot not less then 1"]
    ELSE LET rest == Tail(args)
             parameters == [i \in 1..(Len(rest) \div 2) |->
                               [key |-> rest[2 * i - 1], value |-> rest[2 * i]]]
         IN IF ParametersValidate(parameters) # Nil
            THEN [params |-> <<>>, err |-> ParametersValidate(parameters)]
            ELSE [params |-> parameters, err |-> Nil]

\* Argument strings: empty, a key, a word that is no key
ArgStrings == {<<>>, <<"-", "k">>, <<"k">>, <<"v">>}
ArgLists == UNION {[1..m -> ArgStrings] : m \in 0..MaxArgs}
ParameterSet == [key : ArgStrings, value : ArgStrings]
ParameterLists == UNION {[1..m -> ParameterSet] : m \in 1..MaxParams}

NoResult == [params |-> <<>>, err |-> Nil]

InitPure ==
    /\ InitCtl
    /\ InitRunVars
    /\ InitJobVars
    /\ InitCleanVars
    /\ InitLifeVars
    /\ InitTripVars
    /\ InitPodVars
    /\ qpc = "call"
    /\ \/ qop = "line" /\ qin \in Strings(LineChars, MaxLineLen)
       \/ qop = "args" /\ qin \in ArgLists
       \/ qop = "trip" /\ qin \in [s : ArgStrings, ps : ParameterLists]
    /\ qres = NoResult

\* getOrTailLogs reads the line qin.
ReadLogLine ==
    /\ qpc = "call"
    /\ qop = "line"
    /\ qres' = parseLine(qin)
    /\ qpc' = "done"
    /\ UNCHANGED <<qop, qin>>

CallArgs2Parameters ==
    /\ qpc = "call"
    /\ qop = "args"
    /\ qres' = Args2Parameters(qin)
    /\ qpc' = "done"
    /\ UNCHANGED <<qop, qin>>

\* Args2Parameters(append([]string{s}, ps.Args()...))
CallArgsOfParameters ==
    /\ qpc = "call"
    /\ qop = "trip"
    /\ qres' = Args2Parameters(<<qin.s>> \o Args(qin.ps))
    /\ qpc' = "done"
    /\ UNCHANGED <<qop, qin>>

\* ------------------------------------------------------------------------
\* RunTask and the worker that handles the created Job's watch events
\* ------------------------------------------------------------------------
\* The Job the current RunTask call has created in the cluster (line 282);
\* the informer delivers it from then on, whether or not RunTask has
\* reached m.jobTracker.store(job) (line 292).
RaceKeys ==
    IF rpc \in {"trackJob", "deferred", "returned"}
    THEN {rcreated[i].key : i \in {j \in 1..Len(rcreated) : rcreated[j].kind = "Job"}}
             \cap DOMAIN jobs
    ELSE {}

\* The cluster's Job controller updates the status of the new Job.
RaceJobStatusChange ==
    /\ \E k \in RaceKeys :
          /\ jobs[k].status.conds = <<>>
          /\ \E s2 \in JobStatuses :
                /\ s2 # jobs[k].status
                /\ s2.succeeded >= jobs[k].status.succeeded
                /\ s2.failed >= jobs[k].status.failed
                /\ jobs' = [jobs EXCEPT ![k].status = s2]
    /\ UNCHANGED <<cms, taskTracker, jobTracker, rpc, rtask, rscript, rcm, rjob,
                   rerr, rstored, rcreated, rbefore, runs, jobVars>>

\* A worker of the Job controller runs onJobAddedUpdated with the cached
\* snapshot of the new Job.
RaceJobDelivered ==
    /\ \E k \in RaceKeys :
          LET res == onJobAddedUpdated(jobTracker, k, jobs[k]) IN
          /\ jobTracker' = res.tbl
          /\ last' = [key |-> k, snap |-> jobs[k].status, calls |-> res.calls,
                      err |-> res.err, skipped |-> res.skipped,
                      repeat |-> FALSE]
    /\ UNCHANGED <<cms, jobs, taskTracker, rpc, rtask, rscript, rcm, rjob,
                   rerr, rstored, rcreated, rbefore, runs,
                   fresh, nSucceed, nFailed, deliveries, reports>>

\* ------------------------------------------------------------------------
\* Specifications
\* ------------------------------------------------------------------------
Init == InitCtl /\ InitRunVars /\ InitJobVars /\ InitCleanVars /\ InitLifeVars /\ InitTripVars /\ InitPodVars /\ InitPureVars

NextCtl ==
    /\ \/ \E k \in Keys : AddFunc(k)
       \/ \E k \in Keys : UpdateFunc(k)
       \/ \E k \in Keys : DeleteFunc(k)
       \/ \E k \in Keys : UnlabelledCreate(k)
       \/ \E k \in Keys : UnlabelledUpdate(k)
       \/ \E k \in Keys : UnlabelledDelete(k)
       \/ \E k \in Keys : LabelAdded(k)
       \/ \E k \in Keys : LabelRemoved(k)
       \/ \E k \in Keys : DelayFire(k)
       \/ \E w \in Workers : WorkerGet(w)
       \/ \E w \in Workers : WorkerBusiness(w)
       \/ \E w \in Workers : WorkerCallbackReturn(w)
       \/ \E w \in Workers : WorkerHandleErr(w)
       \/ \E w \in Workers : WorkerDone(w)
    /\ UNCHANGED <<runVars, jobVars, cleanVars, lifeVars, tripVars, podVars, pureVars>>

SpecCtl == Init /\ [][NextCtl]_vars

NextRun ==
    /\ \/ RunTaskCall
       \/ RunTaskValidate
       \/ RunTaskStore
       \/ RunTaskGenerateScript
       \/ RunTaskGenerateConfigMap
       \/ RunTaskCreateConfigMap
       \/ RunTaskGenerateJob
       \/ RunTaskCreateJob
       \/ RunTaskTrackJob
       \/ RunTaskReturn
       \/ RunTaskDone
    /\ UNCHANGED <<ctlVars, jobVars, cleanVars, lifeVars, tripVars, podVars, pureVars>>

SpecRun == Init /\ [][NextRun]_vars

NextRace ==
    /\ \/ RunTaskCall /\ UNCHANGED jobVars
       \/ RunTaskValidate /\ UNCHANGED jobVars
       \/ RunTaskStore /\ UNCHANGED jobVars
       \/ RunTaskGenerateScript /\ UNCHANGED jobVars
       \/ RunTaskGenerateConfigMap /\ UNCHANGED jobVars
       \/ RunTaskCreateConfigMap /\ UNCHANGED jobVars
       \/ RunTaskGenerateJob /\ UNCHANGED jobVars
       \/ RunTaskCreateJob /\ UNCHANGED jobVars
       \/ RunTaskTrackJob /\ UNCHANGED jobVars
       \/ RunTaskReturn /\ UNCHANGED jobVars
       \/ RunTaskDone /\ UNCHANGED jobVars
       \/ RaceJobStatusChange
       \/ RaceJobDelivered
    /\ UNCHANGED <<ctlVars, cleanVars, lifeVars, tripVars, podVars, pureVars>>

SpecRace == Init /\ [][NextRace]_vars

NextJob ==
    /\ \/ \E k \in JobKeys : JobStatusChange(k)
       \/ \E k \in JobKeys : JobDelivered(k)
    /\ UNCHANGED <<ctlVars, cleanVars, lifeVars, tripVars, podVars, pureVars>>

SpecJob == InitJob /\ [][NextJob]_vars

NextClean ==
    /\ \/ CleanupTaskCall
       \/ CleanupRequestFails
       \/ CleanupListJobs
       \/ CleanupDeleteJob
       \/ CleanupListConfigMaps
       \/ CleanupDeleteConfigMap
       \/ CleanupReturn
       \/ \E k \in DOMAIN jobs : OtherActorDeletesJob(k)
       \/ \E k \in DOMAIN cms : OtherActorDeletesConfigMap(k)
       \/ \E k \in DOMAIN gone : JobDeletionProcessed(k)
    /\ UNCHANGED <<ctlVars, jobVars, lifeVars, tripVars, podVars, pureVars>>

SpecClean == InitClean /\ [][NextClean]_vars

NextLife ==
    /\ \/ MasterRun
       \/ CtxCancel
       \/ MasterReturn
       \/ \E c \in Controllers : RunStart(c)
       \/ \E c \in Controllers : InformerDelivers(c)
       \/ \E c \in Controllers : InformerSynced(c)
       \/ \E c \in Controllers : RunWaitSync(c)
       \/ \E c \in Controllers : RunStop(c)
       \/ \E c \in Controllers : RunWorkerGet(c)
       \/ \E c \in Controllers : RunWorkerDone(c)
       \/ \E c \in Controllers : RunWorkerQuit(c)
    /\ UNCHANGED <<ctlVars, runVars, jobVars, cleanVars, tripVars, podVars, pureVars>>

SpecLife == InitLife /\ [][NextLife]_vars

\* The Go scheduler runs every goroutine that can take a step, and a
\* callback that was started returns.
LifeFairness ==
    /\ WF_lifeVars(MasterReturn)
    /\ \A c \in Controllers :
          /\ WF_lifeVars(RunStart(c))
          /\ WF_lifeVars(RunWaitSync(c))
          /\ WF_lifeVars(RunStop(c))
          /\ WF_lifeVars(RunWorkerGet(c))
          /\ WF_lifeVars(RunWorkerDone(c))
          /\ WF_lifeVars(RunWorkerQuit(c))

SpecLifeFair == SpecLife /\ LifeFairness

NextTrip ==
    /\ \/ TripGenerateScript
       \/ TripGenerateJob
       \/ TripJob2Task
    /\ UNCHANGED <<ctlVars, runVars, jobVars, cleanVars, lifeVars, podVars, pureVars>>

SpecTrip == InitTrip /\ [][NextTrip]_vars

NextPod ==
    /\ \/ PodAdvance
       \/ PodWrites
       \/ PodHandlerStart
       \/ DeadlineExpires
       \/ StatusCallbackReturns
       \/ FetchClean
       \/ FetchOpen
       \/ FetchLine
       \/ FetchEOF
       \/ FetchAbort
       \/ FlushRecv
       \/ FlushTick
       \/ FlushClosed
       \/ PodHandlerReturn
    /\ UNCHANGED <<ctlVars, runVars, jobVars, cleanVars, lifeVars, tripVars, pureVars>>

SpecPod == InitPod /\ [][NextPod]_vars

\* The Go scheduler runs a goroutine that can take a step, and every OnLogs
\* call returns.  The ticker, the pod and the informer are not obliged to
\* act.
PodFairness ==
    /\ WF_podVars(FlushRecv)
    /\ WF_podVars(FlushClosed)
    /\ WF_podVars(PodHandlerReturn)

SpecPodFair == SpecPod /\ PodFairness

NextPure ==
    /\ \/ ReadLogLine
       \/ CallArgs2Parameters
       \/ CallArgsOfParameters
    /\ UNCHANGED <<ctlVars, runVars, jobVars, cleanVars, lifeVars, tripVars,
                   podVars>>

SpecPure == InitPure /\ [][NextPure]_vars

\* ------------------------------------------------------------------------
\* Properties of the controller (SpecCtl)
\* ------------------------------------------------------------------------
InCallback(w, k) == wpc[w] = "callback" /\ wkey[w] = k

\* C1: for every key, two executions of the business callback for that key
\* are never in progress at the same time, whatever events arrive meanwhile.
C1_AtMostOneInFlight ==
    \A k \in Keys : \A w1, w2 \in Workers :
        (InCallback(w1, k) /\ InCallback(w2, k)) => w1 = w2

\* C1 witness: a callback for a key is running, a further event for that key
\* has arrived (the key is dirty again) and another worker is free.
C1_Witness ==
    \E k \in Keys : \E w1, w2 \in Workers :
        /\ InCallback(w1, k)
        /\ k \in wq.dirty
        /\ events[k] >= 2
        /\ wpc[w2] = "get"

\* handleErr has still to run for an error the callback returned for k.
PendingHandleErr(k) == \E w \in Workers : wpc[w] = "handleErr" /\ wkey[w] = k

Scheduled(k) ==
    \/ waiting[k] > 0
    \/ k \in wq.dirty
    \/ \E i \in 1..Len(wq.queue) : wq.queue[i] = k

\* C2: a key enqueued by one event whose callback errors on every attempt is
\* attempted 6 times in all (5 retries after the first attempt); the error is
\* reported exactly when the 6th attempt failed, once, and the key is then no
\* longer scheduled; before that every failed attempt is followed by a retry.
C2_RetryCeiling ==
    \A k \in Keys :
        (events[k] = 1 /\ successes[k] = 0 /\ ~PendingHandleErr(k)) =>
            /\ attempts[k] <= 6
            /\ reported[k] <= 1
            /\ (reported[k] = 1 <=> attempts[k] = 6)
            /\ (reported[k] = 1 => ~Scheduled(k))
            /\ failures[k] = (IF reported[k] = 1 THEN 0 ELSE attempts[k])
            /\ (reported[k] = 0 /\ attempts[k] > 0) =>
                  (Scheduled(k) \/ k \in wq.processing)

\* C2 witness: the error of an always-failing key has been reported after
\* its 6th attempt and the worker has finished with the key.
C2_Witness ==
    \E k \in Keys :
        /\ events[k] = 1
        /\ successes[k] = 0
        /\ attempts[k] = 6
        /\ reported[k] = 1
        /\ k \notin wq.processing

\* C9: each processing of a key invokes one callback, chosen by the cache at
\* processing time: OnRemoved(key) when the key is absent from the indexer,
\* OnChanged(key, cached object) when it is present.
C9_CallbackFollowsCache ==
    \A w \in Workers :
        wpc[w] \in {"callback", "handleErr", "done"} =>
            wcall[w] = (IF wseen[w] = Absent
                        THEN [cb |-> "OnRemoved", key |-> wkey[w], obj |-> Absent]
                        ELSE [cb |-> "OnChanged", key |-> wkey[w], obj |-> wseen[w]])

\* C9 witness: OnRemoved runs for a key that an add event enqueued (the
\* object was deleted before the worker looked it up).
C9_Witness ==
    \E w \in Workers :
        /\ wpc[w] = "callback"
        /\ wcall[w].cb = "OnRemoved"
        /\ enqueuedBy[wkey[w]] = "add"
        /\ wkey[w] \notin wq.dirty

\* A worker is between the return of k's callback and handleErr.
HandlingResult(k, e) ==
    \E w \in Workers : wpc[w] = "handleErr" /\ wkey[w] = k /\ werr[w] = e

\* C18: once handleErr has run for a successful callback the key's requeue
\* count is zero, and at any time the requeue count is the number of callback
\* errors in a row since the key's last success or drop, so each run of
\* failures is retried 5 times before the key is dropped.
C18_SuccessForgets ==
    /\ \A w \in Workers :
          (wpc[w] = "done" /\ werr[w] = Nil) => failures[wkey[w]] = 0
    /\ \A k \in Keys :
          /\ HandlingResult(k, Err) => failures[k] = streak[k] - 1
          /\ ~(HandlingResult(k, Err) \/ HandlingResult(k, Nil)) =>
                failures[k] = streak[k]
          /\ streak[k] <= 6

\* C18 witness: handleErr has run for a successful callback of a key that
\* failed before (the timer of that failure's retry is still pending).
C18_Witness ==
    \E w \in Workers :
        /\ wpc[w] = "done"
        /\ werr[w] = Nil
        /\ waiting[wkey[w]] > 0
        /\ failures[wkey[w]] = 0

\* C19: the callback is never invoked again for a key that handleErr has
\* dropped.
C19_DroppedNeverRetried ==
    \A k \in Keys : \A w \in Workers : dropped[k] => ~InCallback(w, k)

\* C20: an operation on an object without the required label adds nothing to
\* the work queue, changes nothing in the cache and starts no callback.
C20_UnlabelledNeverQueued ==
    [][(\E k \in Keys : quiet'[k] # quiet[k]) =>
          UNCHANGED <<wq, indexer, waiting, wpc, wkey, wcall>>]_vars

\* C20 witness: an object without the label was created and updated while
\* nothing else happened; the queue is empty and no worker is busy.
C20_Witness ==
    \E k \in Keys :
        /\ quiet[k] >= 2
        /\ unlabelled[k]
        /\ events[k] = 0
        /\ wq.queue = <<>>
        /\ \A w \in Workers : wpc[w] = "get"

\* ------------------------------------------------------------------------
\* Properties of RunTask (SpecRun)
\* ------------------------------------------------------------------------
Created(kind) == {i \in 1..Len(rcreated) : rcreated[i].kind = kind}
Cluster(kind) == IF kind = "Job" THEN jobs ELSE cms

CarriesTaskLabel(obj, name) ==
    /\ TaskNameLabelKey \in DOMAIN obj.labels
    /\ obj.labels[TaskNameLabelKey] = name

\* C5: when RunTask returns without error, the call created exactly one
\* ConfigMap and exactly one Job, and both carry the Task's correlation label.
C5_OneScriptOneJob ==
    (rpc = "returned" /\ rerr = Nil) =>
        /\ Cardinality(Created("ConfigMap")) = 1
        /\ Cardinality(Created("Job")) = 1
        /\ \A i \in 1..Len(rcreated) :
              /\ rcreated[i].key \in DOMAIN Cluster(rcreated[i].kind)
              /\ CarriesTaskLabel(Cluster(rcreated[i].kind)[rcreated[i].key],
                                  rtask.name)

\* C5 witness: RunTask has returned without error after creating both
\* objects.
C5_Witness ==
    /\ rpc = "returned"
    /\ rerr = Nil
    /\ Len(rcreated) = 2

\* C6: the ConfigMap is created before the Job: every Job a RunTask call
\* created names a ConfigMap the same call created earlier, so no Job is
\* created when the ConfigMap was not.
C6_ScriptBeforeJob ==
    \A i \in Created("Job") :
        \E j \in Created("ConfigMap") :
            /\ j < i
            /\ rcreated[j].obj.name = rcreated[i].obj.cmRef
            /\ rcreated[j].obj.ns = rcreated[i].obj.ns

\* C6 witness: a Job has been created, and the ConfigMap it names is not the
\* one GenerateScript generated first.
C6_Witness ==
    /\ Created("Job") # {}
    /\ rscript.cm # rscript.first

\* C7: when RunTask returns an error after it stored the Task, the task
\* table holds no entry for the Task and every object the call created is
\* still in the cluster.
C7_RollbackKeepsObjects ==
    (rpc = "returned" /\ rerr # Nil /\ rstored) =>
        /\ MetaNamespaceKey(rtask.ns, rtask.name) \notin DOMAIN taskTracker
        /\ \A i \in 1..Len(rcreated) :
              rcreated[i].key \in DOMAIN Cluster(rcreated[i].kind)

\* C7 witness: RunTask failed at the Job creation, after its ConfigMap was
\* created.
C7_Witness ==
    /\ rpc = "returned"
    /\ rerr # Nil
    /\ rstored
    /\ Created("ConfigMap") # {}

Malformed(t) ==
    \/ t.name = <<>>
    \/ t.ns = <<>>
    \/ t.image = ""
    \/ t.content = ""
    \/ t.executor \notin {"sh", "bash", "python"}
    \/ t.privilege \notin {None, "HostRoot", "ClusterRoot"}
    \/ (t.deadline # <<>> /\ t.deadline[1] <= 0)
    \/ (t.backoff # <<>> /\ t.backoff[1] < 0)

\* C8: RunTask on a malformed Task returns an error before any cluster
\* object is created and leaves the tracking tables as they were.
C8_MalformedRejected ==
    (rpc = "returned" /\ Malformed(rtask)) =>
        /\ rerr # Nil
        /\ rcreated = <<>>
        /\ taskTracker = rbefore.task
        /\ jobTracker = rbefore.job

\* ------------------------------------------------------------------------
\* Properties of the Job event handling (SpecJob)
\* ------------------------------------------------------------------------
\* C3: delivering the same Job snapshot twice in a row invokes no callback
\* on the second delivery.
C3_RepeatedSnapshotSilent ==
    last.repeat => last.calls = <<>>

Finished(k) == jobs[k].status.conds # <<>>

\* C4: over all deliveries for a Job of a submitted Task, at most one
\* terminal callback fires, once; after the finished Job was delivered it is
\* OnSucceed for a completed Job and OnFailed for a failed one.
C4_TerminalCallbackOnce ==
    \A k \in JobKeys :
        jobs[k].content # NoContent =>
            /\ nSucceed[k] + nFailed[k] <= 1
            /\ (Finished(k) /\ ~fresh[k]) =>
                  IF jobs[k].status.conds[1].type = "Complete"
                  THEN nSucceed[k] = 1 /\ nFailed[k] = 0
                  ELSE nSucceed[k] = 0 /\ nFailed[k] = 1

Processed == last.key # <<>> /\ ~last.skipped /\ last.err = Nil

ExpectedCondition(snap) ==
    [type |-> snap.conds[1].type, status |-> snap.conds[1].status,
     reason |-> snap.conds[1].reason, message |-> snap.conds[1].message]

\* C11: after onJobAddedUpdated returned without error for a snapshot with
\* a condition, the job tracking table has no entry for that Job.
C11_TerminalUntracked ==
    (last.key # <<>> /\ last.err = Nil /\ Len(last.snap.conds) > 0) =>
        last.key \notin DOMAIN jobTracker

\* C13: once a terminal callback has run for the Job of a Task that RunTask
\* stored, the task tracking table has no entry for that Task.
C13_TaskUntrackedAtTerminal ==
    \A k \in JobKeys :
        (jobs[k].content # NoContent /\ nSucceed[k] + nFailed[k] > 0) =>
            MetaNamespaceKey(jobs[k].content.ns, jobs[k].content.name)
                \notin DOMAIN taskTracker

\* C14: a Task reported with a Condition is reported with the same Condition
\* ever after; before that the active, succeeded and failed counts of a
\* report are not below those of the report before.
C14_ReportsMonotone ==
    [][\A k \in JobKeys :
          (reports[k] # NoReport /\ reports'[k] # reports[k]) =>
              IF reports[k].cond # NoCond
              THEN reports'[k].cond = reports[k].cond
              ELSE /\ reports'[k].active >= reports[k].active
                   /\ reports'[k].succeeded >= reports[k].succeeded
                   /\ reports'[k].failed >= reports[k].failed]_vars

\* C10: a processed snapshot with at least one condition gets OnStatusUpdate
\* and then exactly one terminal callback, OnSucceed if the first condition
\* is Complete and OnFailed otherwise, with the Task's Condition copied from
\* the first condition; a snapshot without condition gets OnStatusUpdate only.
C10_CallbackOrder ==
    Processed =>
        IF Len(last.snap.conds) > 0
        THEN /\ Len(last.calls) = 2
             /\ last.calls[1].cb = "OnStatusUpdate"
             /\ last.calls[2].cb =
                   (IF last.snap.conds[1].type = "Complete"
                    THEN "OnSucceed" ELSE "OnFailed")
             /\ \A i \in 1..2 :
                   last.calls[i].task.cond = ExpectedCondition(last.snap)
        ELSE /\ Len(last.calls) = 1
             /\ last.calls[1].cb = "OnStatusUpdate"
             /\ last.calls[1].task.cond = NoCond

\* C10 witness: a processed snapshot whose condition list has two entries of
\* different types.
C10_Witness ==
    /\ Processed
    /\ Len(last.snap.conds) = 2
    /\ last.snap.conds[1].type # last.snap.conds[2].type
    /\ Len(last.calls) = 2

\* ------------------------------------------------------------------------
\* Properties of CleanupTask and onJobDeleted (SpecClean)
\* ------------------------------------------------------------------------
\* C12: after onJobDeleted(key) has returned without error for a Job that
\* RunTask created, the Job table has no entry for key and the Task table has
\* no entry for the owning Task, whose key is key with its last "-" suffix
\* removed.
C12_DeletedJobUntracked ==
    (lastDeleted.key # <<>> /\ lastDeleted.err = Nil) =>
        /\ lastDeleted.key \notin DOMAIN jobTracker
        /\ lastDeleted.owner \notin DOMAIN taskTracker
        /\ lastDeleted.owner = RemoveSuffix(lastDeleted.key, "-").val

\* onJobDeleted has run for the Job of the Task whose name contains a dash,
\* while Task and Job were tracked before.
C12_Witness ==
    /\ lastDeleted.key = ObjKey(TaskJob(DashedTask, <<"a">>))
    /\ lastDeleted.err = Nil
    /\ lastDeleted.owner = MetaNamespaceKey(DashedTask.ns, DashedTask.name)
    /\ MetaNamespaceKey(ValidTask.ns, ValidTask.name) \in DOMAIN taskTracker

CarriesCleanupLabels(obj, t) ==
    /\ obj.ns = t.ns
    /\ managerAddLabelKey \in DOMAIN obj.labels
    /\ obj.labels[managerAddLabelKey] = managerAddLabelVal
    /\ TaskNameLabelKey \in DOMAIN obj.labels
    /\ obj.labels[TaskNameLabelKey] = t.name

C17_ConcurrentDeleteTolerated ==
    (cpc = "returned" /\ cstolen /\ ~cfault) => cerr = Nil

\* ------------------------------------------------------------------------
\* Properties of the controller life cycle (SpecLife)
\* ------------------------------------------------------------------------
WorkerLoops(c) == lidle[c] + lbusy[c] + lexited[c]

\* C21: no worker loop exists and no callback runs before the informer has
\* synced; a Run that returns because the stop channel was closed first has
\* reported the failure and shut the queue down, and never started a worker.
C21_NoWorkerBeforeSync ==
    \A c \in Controllers :
        /\ (WorkerLoops(c) > 0 \/ lpc[c] = "serving") => lsynced[c]
        /\ (lpc[c] = "returned" /\ (~lsynced[c] \/ lreported[c])) =>
              /\ lreported[c]
              /\ lqueue[c].shuttingDown
              /\ WorkerLoops(c) = 0

\* One controller was stopped before its sync while keys were already
\* queued; another one synced and runs a callback.
C21_Witness ==
    \E c, d \in Controllers :
        /\ lpc[c] = "returned" /\ ~lsynced[c] /\ lreported[c]
        /\ lqueue[c].items # {}
        /\ lsynced[d] /\ lbusy[d] > 0

AllStopped ==
    /\ mpc = "returned"
    /\ lstop
    /\ \A c \in Controllers :
          /\ lpc[c] = "returned"
          /\ lqueue[c].shuttingDown
          /\ lidle[c] = 0
          /\ lbusy[c] = 0

\* C22: once the context of a running MasterController.Run is cancelled, Run
\* returns, every controller's Run returns with its queue shut down, and
\* every worker loop exits.
C22_CancelStopsEverything == (mctx /\ mpc # "new") ~> AllStopped

\* Everything has stopped after workers had been started and had run
\* callbacks.
C22_Witness ==
    /\ AllStopped
    /\ \A c \in Controllers : lexited[c] >= 1 /\ lsynced[c]

\* C24: a started controller runs the configured number of workers when it
\* is positive and 3 otherwise, whichever constructor built it.
C24_WorkerCount ==
    \A c \in Controllers :
        lpc[c] = "serving" =>
            WorkerLoops(c) = (IF lconfigured > 0 THEN lconfigured ELSE defaultWorkers)

RECURSIVE Flatten(_)
Flatten(batches) ==
    IF batches = <<>> THEN <<>> ELSE Head(batches) \o Flatten(Tail(batches))

Occurrences(s, x) == Cardinality({i \in 1..Len(s) : s[i] = x})

OutputLines == [i \in 1..pout |-> i]

\* getOrTailLogs read the output to io.EOF and the flush goroutine ended
StreamComplete ==
    stream.fpc = "done" /\ stream.err = Nil /\ stream.gpc = "done"

\* C23: when the deadline of the callback context passed while a user
\* callback was running, the handler returns an error for the key.
C23_DeadlineTakesErrorPath ==
    (hpc = "idle" /\ hexpired) => hresult # Nil

ExpectedAction ==
    IF hold = hnew THEN "noop"
    ELSE IF hnew = "Running" THEN "follow"
    ELSE IF hnew \in Terminal /\ hold # "Running" THEN "full"
    ELSE IF hnew \in Terminal THEN "skip"
    ELSE "none"

\* C27: the log action is fixed by the tracked phase and the new phase:
\* Running starts a following fetch, a terminal phase not after Running a
\* full fetch, a terminal phase after Running and any other phase no fetch
\* and no batch, and the tracked phase again neither callback nor fetch.
C27_LogActionTable ==
    /\ haction \in {"init", "callback"} \/ haction = ExpectedAction
    /\ haction = "callback" => hold # hnew
    /\ haction = "noop" => hpc = "idle"
    /\ haction = "follow" => stream.follow /\ stream.fpc # "off"
    /\ haction = "full" => ~stream.follow /\ stream.fpc # "off"
    /\ haction \in {"skip", "none"} =>
           /\ stream.fpc = "off"
           /\ stream.gpc = "off"
           /\ stream.batches = <<>>
           /\ hpc = "idle"
    /\ hpc = "fetch" => haction \in {"follow", "full"}

\* A pod tracked as Running was delivered in a terminal phase.
C27_Witness ==
    /\ haction = "skip"
    /\ hold = "Running"
    /\ hnew \in Terminal
    /\ got # {}

\* C28: in a full fetch CleanAllLogs is called once, and before the first
\* OnLogs call of the fetch.
C28_CleanBeforeLogs ==
    haction = "full" =>
        /\ stream.cleans <= 1
        /\ stream.batches # <<>> => stream.cleans = 1
        /\ stream.fpc \in {"open", "read", "done"} => stream.cleans = 1

\* The ticker of a full fetch was running before CleanAllLogs returned, and
\* the fetch was delivered.
C28_Witness ==
    /\ haction = "full"
    /\ StreamComplete
    /\ stream.cleans = 1
    /\ Len(stream.batches) >= 2

\* C29: when a pod tracked as Running is delivered in a terminal phase,
\* every line of its output has been passed to OnLogs.
C29_TailDeliveredEverything ==
    haction = "skip" => got = 1..pout

\* C30: the marker line is passed to OnLogs once per stream, as the last
\* line of the last OnLogs call, and every stream that ended has it.
C30_OneEndMarker ==
    LET all == Flatten(stream.batches) IN
    /\ Occurrences(all, EndOfPodLine) <= 1
    /\ Occurrences(all, EndOfPodLine) = 1 =>
           /\ all[Len(all)] = EndOfPodLine
           /\ stream.gpc = "done"
    /\ stream.gpc = "done" => Occurrences(all, EndOfPodLine) = 1
    /\ (hpc = "idle" /\ haction \in {"follow", "full"}) => stream.gpc = "done"

\* A stream that was cut short by the deadline after some batches ended
\* with the marker line.
C30_Witness ==
    /\ hpc = "idle"
    /\ haction = "follow"
    /\ stream.err # Nil
    /\ Len(stream.batches) >= 2
    /\ stream.batches[Len(stream.batches)] = <<EndOfPodLine>>

\* ------------------------------------------------------------------------
\* Properties of the parsing functions (SpecPure)
\* ------------------------------------------------------------------------
\* C32: every line read from the log stream becomes one LogLine and none
\* aborts the fetch; a line whose first token is no timestamp gets the zero
\* time and keeps its message.
C32_EveryLineBecomesALogLine ==
    (qop = "line" /\ qpc = "done") =>
        /\ ~qres.panic
        /\ (\E i \in 1..Len(qin) : qin[i] = " ") =>
               /\ qres.message = SplitN2(qin)[2]
               /\ SplitN2(qin)[1] # <<"T">> => qres.timestamp = ZeroTime

\* C33: Args2Parameters returns an error for fewer than two arguments and
\* for an odd number of arguments after the first.
C33_OddArgumentsRejected ==
    (qop = "args" /\ qpc = "done") =>
        ((Len(qin) < 2 \/ (Len(qin) - 1) % 2 = 1) => qres.err # Nil)

\* C34: for a non-empty list ps of valid Parameters and any script path s,
\* Args2Parameters(s, ps.Args()...) returns ps.
C34_ArgsRoundTrip ==
    (qop = "trip" /\ qpc = "done" /\ ParametersValidate(qin.ps) = Nil) =>
        qres = [params |-> qin.ps, err |-> Nil]

\* Two valid Parameters with different values came back.
C34_Witness ==
    /\ qop = "trip"
    /\ qpc = "done"
    /\ Len(qin.ps) = 2
    /\ ParametersValidate(qin.ps) = Nil
    /\ qin.ps[1].value # qin.ps[2].value
    /\ qin.ps[1].value # qin.ps[1].key
    /\ qres.err = Nil
    /\ Len(qres.params) = 2

\* ------------------------------------------------------------------------
\* Properties of the work queue as the controller uses it (SpecCtl)
\* ------------------------------------------------------------------------
InQueue(k) == Cardinality({i \in 1..Len(wq.queue) : wq.queue[i] = k})

C36_DifferingSnapshotProcessed ==
    (last.key # <<>> /\ last.skipped) =>
        /\ jobTracker[last.key].active = last.snap.active
        /\ jobTracker[last.key].succeeded = last.snap.succeeded
        /\ jobTracker[last.key].failed = last.snap.failed
        /\ Len(jobTracker[last.key].conds) = Len(last.snap.conds)

\* ------------------------------------------------------------------------
\* RunTask against the worker of the Job controller (SpecRace)
\* ------------------------------------------------------------------------
\* C38: after the worker processed a snapshot of the Job RunTask created,
\* the job table holds that snapshot, and no entry once the snapshot had a
\* condition; RunTask's initial snapshot never replaces it.
C38_RunTaskKeepsWorkersSnapshot ==
    (last.key # <<>> /\ ~last.skipped /\ last.err = Nil) =>
        IF last.snap.conds # <<>>
        THEN last.key \notin DOMAIN jobTracker
        ELSE /\ last.key \in DOMAIN jobTracker
             /\ jobTracker[last.key] = last.snap

\* ------------------------------------------------------------------------
\* Further properties of the pod event handling (SpecPod, SpecPodFair)
\* ------------------------------------------------------------------------
HasMarker(batch) == \E j \in 1..Len(batch) : batch[j] = EndOfPodLine

\* C31: the channel and the flush buffer never hold more than initBufSize
\* lines; a batch without the end marker has between one and initBufSize
\* lines, so a tick with an empty buffer delivers nothing; the final batch
\* is at most the buffer and the marker.
C31_BuffersAndBatchesBounded ==
    /\ Len(stream.ch) <= initBufSize
    /\ Len(stream.lines) <= initBufSize
    /\ \A i \in 1..Len(stream.batches) :
          IF HasMarker(stream.batches[i])
          THEN Len(stream.batches[i]) <= initBufSize + 1
          ELSE Len(stream.batches[i]) \in 1..initBufSize

\* A full buffer was flushed before the end of the stream and the flush
\* goroutine is filling the buffer again.
C31_Witness ==
    /\ hpc = "fetch"
    /\ stream.gpc = "run"
    /\ \E i \in 1..Len(stream.batches) :
          /\ Len(stream.batches[i]) = initBufSize
          /\ ~HasMarker(stream.batches[i])
    /\ Len(stream.lines) >= 1

\* C37: when onPodAddedUpdated returned an error for a pod, the retry with
\* the same snapshot is not skipped: the status callback and the log fetch
\* run again.
C37_RetryAfterErrorRuns ==
    [][(PodHandlerStart /\ hresult # Nil /\ pphase = hnew)
          => haction' # "noop"]_vars

\* C39: the end marker is delivered only by a fetch that read the pod's
\* output to its end without error.
C39_MarkerOnlyAfterCompleteFetch ==
    (\E i \in 1..Len(stream.batches) : HasMarker(stream.batches[i])) =>
        /\ stream.fpc = "done"
        /\ stream.err = Nil

\* C39, as the code has it: the end marker is delivered only after the
\* fetch goroutine has ended, with or without error, its channel was closed
\* and every line it had sent was received.
C39_MarkerOnlyAfterFetchEnded ==
    (\E i \in 1..Len(stream.batches) : HasMarker(stream.batches[i])) =>
        /\ stream.fpc = "done"
        /\ stream.closed
        /\ stream.ch = <<>>

\* The stream could not be opened after the deadline had passed: the only
\* batch delivered is the marker.
C39_Witness ==
    /\ stream.fpc = "done"
    /\ stream.err # Nil
    /\ stream.pos = 0
    /\ stream.batches = <<<<EndOfPodLine>>>>

\* C40: once the fetch goroutine has ended, the flush goroutine delivers its
\* final batch and the handler returns; a fetch goroutine blocked on the
\* full channel gets room to send.
C40_StreamEnds ==
    /\ (hpc = "fetch" /\ stream.fpc = "done") ~> (hpc = "idle")
    /\ (hpc = "fetch" /\ Len(stream.ch) = initBufSize)
          ~> (hpc = "idle" \/ Len(stream.ch) < initBufSize)

\* The handler has returned the error of a fetch that broke off after lines
\* had been sent; the flush goroutine delivered them and the marker.
C40_Witness ==
    /\ hpc = "idle"
    /\ stream.fpc = "done"
    /\ stream.gpc = "done"
    /\ stream.err # Nil
    /\ hresult # Nil
    /\ Len(stream.batches) >= 2
    /\ stream.ch = <<>>

=============================================================================
